--------------------------- MODULE FleetSelection ---------------------------
(***************************************************************************)
(* Which server a fleet gives up when it scales down: the loops of         *)
(* fleet_deletion.go over a list of servers, and the set of servers they   *)
(* are allowed to return, which FleetController uses.                      *)
(*                                                                         *)
(* A server is a positive number, ts gives its CreationTimestamp (whole    *)
(* seconds, so servers may share one).  answer gives what isDeleteAllowed  *)
(* finds for it: "yes" or "no" from the sidecar ("no" also stands for a    *)
(* sidecar that does not answer), or "noPod" when the cache has no pod of  *)
(* that server, which is an error.                                         *)
(***************************************************************************)
EXTENDS Integers, Sequences

NoChoice == 0  \* a nil server, which FindDeleteServer returns with an error

Answers == {"yes", "no", "noPod"}

\* CreationTimestamp.Before in getOldestServer, CreationTimestamp.After in
\* getNewestServer.
Beats(strategy, t, u) == IF strategy = "oldest_first" THEN t < u ELSE t > u

\* Take the server if there is none yet or its timestamp beats, strictly, the
\* one of the server taken so far.
Take(strategy, best, s, ts) ==
    IF best = NoChoice \/ Beats(strategy, ts[s], ts[best]) THEN s ELSE best

\* The two candidates of a loop, and whether an isDeleteAllowed failed.
NoCandidates == [any |-> NoChoice, allowed |-> NoChoice, failed |-> FALSE]

\* One round of a loop; the first isDeleteAllowed that fails ends the loop.
Round(strategy, deleteFirst, acc, s, ts, answer) ==
    IF acc.failed THEN acc
    ELSE [any     |-> Take(strategy, acc.any, s, ts),
          allowed |-> IF deleteFirst /\ answer[s] = "yes"
                      THEN Take(strategy, acc.allowed, s, ts) ELSE acc.allowed,
          failed  |-> deleteFirst /\ answer[s] = "noPod"]

\* The candidates after each number of rounds.
Rounds(strategy, deleteFirst, list, ts, answer) ==
    LET acc[i \in 0..Len(list)] ==
            IF i = 0 THEN NoCandidates
            ELSE Round(strategy, deleteFirst, acc[i - 1], list[i], ts, answer)
    IN  acc

\* The shape getOldestServer and getNewestServer share.
Loop(strategy, deleteFirst, list, ts, answer) ==
    LET end == Rounds(strategy, deleteFirst, list, ts, answer)[Len(list)]
    IN  IF end.failed \/ end.any = NoChoice THEN NoChoice
        ELSE IF end.allowed # NoChoice THEN end.allowed ELSE end.any

getOldestServer(list, ts, answer, deleteFirst) ==
    Loop("oldest_first", deleteFirst, list, ts, answer)

\* Mutant: the comparison was copied from getOldestServer.
getNewestServer_Before(list, ts, answer, deleteFirst) ==
    Loop("oldest_first", deleteFirst, list, ts, answer)

getNewestServer(list, ts, answer, deleteFirst) ==
    Loop("newest_first", deleteFirst, list, ts, answer)

FindDeleteServer(strategy, deleteFirst, list, ts, answer) ==
    CASE strategy = "oldest_first" -> getOldestServer(list, ts, answer, deleteFirst)
      [] strategy = "newest_first" -> getNewestServer(list, ts, answer, deleteFirst)
      [] OTHER                     -> NoChoice

-----------------------------------------------------------------------------
(* The same without loops or an order of the list *)

\* The servers that go first among those in S.
First(strategy, S, ts) ==
    {s \in S : \A t \in S : IF strategy = "oldest_first" THEN ts[s] <= ts[t]
                                                         ELSE ts[s] >= ts[t]}

\* The choice fails for an unknown strategy, for an empty list, and when the
\* sidecars are to be asked and a pod is missing.
ChoiceFails(strategy, deleteFirst, S, answer) ==
    \/ strategy \notin {"oldest_first", "newest_first"}
    \/ S = {}
    \/ deleteFirst /\ \E s \in S : answer[s] = "noPod"

\* What may be given up when the cache lists the servers S in any order.
Eligible(strategy, deleteFirst, S, ts, answer) ==
    LET allowed == {s \in S : deleteFirst /\ answer[s] = "yes"}
    IN  First(strategy, IF allowed # {} THEN allowed ELSE S, ts)

\* FindDeleteServer fails exactly when it must and otherwise returns one of
\* the eligible servers, the first of them in the list: the two-candidate loop
\* with strict comparisons computes "the oldest allowed, else the oldest".
ChoiceIsCorrect(strategy, deleteFirst, list, ts, answer) ==
    LET listed == {list[i] : i \in DOMAIN list}
        result == FindDeleteServer(strategy, deleteFirst, list, ts, answer)
        best == Eligible(strategy, deleteFirst, listed, ts, answer)
    IN  IF ChoiceFails(strategy, deleteFirst, listed, answer) THEN result = NoChoice
        ELSE /\ result \in best
             /\ \A i, j \in DOMAIN list : list[i] \in best /\ list[j] = result => j <= i

=============================================================================
