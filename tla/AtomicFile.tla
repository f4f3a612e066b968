----------------------------- MODULE AtomicFile -----------------------------
(***************************************************************************)
(* What read and write of one open file promise to concurrent threads:     *)
(* between its call and its return every operation takes effect at one     *)
(* instant on a single content.  A read may be short.                      *)
(***************************************************************************)
EXTENDS Integers

CONSTANTS Threads, Positions, Requests, Idle

VARIABLES content,  \* position -> value
          op        \* op[t]: Idle, or the call [req, done, got] in progress

Init == /\ content = [p \in Positions |-> 0]
        /\ op = [t \in Threads |-> Idle]

Call(t) == /\ op[t] = Idle
           /\ \E r \in Requests :
                 op' = [op EXCEPT ![t] = [req |-> r, done |-> FALSE, got |-> <<>>]]
           /\ UNCHANGED content

Pending(t, kind) == op[t] # Idle /\ ~op[t].done /\ op[t].req.kind = kind

Write(t) == /\ Pending(t, "write")
            /\ op' = [op EXCEPT ![t].done = TRUE]
            /\ LET r == op[t].req
               IN  content' = [p \in Positions |->
                                  IF r.off <= p /\ p < r.off + r.len
                                  THEN r.val ELSE content[p]]

Read(t) == /\ Pending(t, "read")
           /\ \E k \in 0 .. op[t].req.len :
                 LET r == op[t].req
                     got == [p \in r.off .. r.off + k - 1 |-> content[p]]
                 IN  op' = [op EXCEPT ![t].done = TRUE, ![t].got = got]
           /\ UNCHANGED content

\* An fsync changes nothing a thread can see.
Return(t) == /\ op[t] # Idle
             /\ op[t].done \/ op[t].req.kind = "fsync"
             /\ op' = [op EXCEPT ![t] = Idle]
             /\ UNCHANGED content

Next == \E t \in Threads : Call(t) \/ Write(t) \/ Read(t) \/ Return(t)

Spec == Init /\ [][Next]_<<content, op>>
=============================================================================
