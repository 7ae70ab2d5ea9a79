------------------------------ MODULE CmdList ------------------------------
(***************************************************************************)
(* The doubly linked command lists of command/cq_command.c.  A list is a   *)
(* record [next, prev, type, ncmd]; its nodes are numbers, 0 for the head  *)
(* and 1 for the tail, which hold no command, and k + 1 for the k-th       *)
(* command that was added.                                                 *)
(***************************************************************************)
EXTENDS Integers, Sequences

HEAD == 0
TAIL == 1
NULL == -1

cmd_list_init ==
    [next |-> [x \in {HEAD, TAIL} |-> IF x = HEAD THEN TAIL ELSE NULL],
     prev |-> [x \in {HEAD, TAIL} |-> IF x = TAIL THEN HEAD ELSE NULL],
     type |-> <<>>, ncmd |-> 0]

\* Mutant: the tail still points to the command before.
cmd_list_add_forward(l, type) ==
    LET p == l.ncmd + 2
        last == l.prev[TAIL]
    IN [next |-> [x \in DOMAIN l.next \cup {p} |->
                     IF x = p THEN TAIL ELSE IF x = last THEN p ELSE l.next[x]],
        prev |-> [x \in DOMAIN l.prev \cup {p} |-> IF x = p THEN last ELSE l.prev[x]],
        type |-> Append(l.type, type), ncmd |-> l.ncmd + 1]

\* The new node goes between the last one and the tail.
cmd_list_add(l, type) ==
    LET p == l.ncmd + 2
        last == l.prev[TAIL]
    IN [next |-> [x \in DOMAIN l.next \cup {p} |->
                     IF x = p THEN TAIL ELSE IF x = last THEN p ELSE l.next[x]],
        prev |-> [x \in DOMAIN l.prev \cup {p} |->
                     IF x = p THEN last ELSE IF x = TAIL THEN p ELSE l.prev[x]],
        type |-> Append(l.type, type), ncmd |-> l.ncmd + 1]

get_first_cmd(l) == l.next[HEAD]

\* The nodes that are met from a node on along a link, in n steps.
Walk(from, link, n) ==
    LET f[k \in 0..n] == IF k = 0 THEN from
                         ELSE IF f[k - 1] \in DOMAIN link THEN link[f[k - 1]] ELSE NULL
    IN f

\* Travelling from the first command to the tail meets exactly the commands
\* cmds, and travelling back meets them in the opposite order.
Holds(l, cmds) ==
    LET n == Len(cmds)
        there == Walk(get_first_cmd(l), l.next, n)
        back == Walk(l.prev[TAIL], l.prev, n)
    IN /\ l.ncmd = n
       /\ there[n] = TAIL /\ back[n] = HEAD
       /\ \A k \in 1..n : there[k - 1] - 1 \in 1..n /\ back[k - 1] - 1 \in 1..n
       /\ \A k \in 1..n : /\ l.type[there[k - 1] - 1] = cmds[k]
                          /\ back[k - 1] = there[n - k]
=============================================================================
