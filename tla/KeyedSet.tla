------------------------------ MODULE KeyedSet ------------------------------
(***************************************************************************)
(* What mylib/hash.h promises its callers: a set of entries with distinct  *)
(* keys on which every call of any thread takes effect at one moment       *)
(* between its start and its return.                                       *)
(***************************************************************************)
EXTENDS Naturals, Sequences, FiniteSets

CONSTANTS Threads, Entries, Keys, KeyOf, NoEntry

VARIABLES
    held,      \* the entries in the table
    phase,     \* [thread -> "idle" | "called" | "done"]
    call,      \* [thread -> the operation in progress]
    result     \* [thread -> its result once phase is "done"]

avars == <<held, phase, call, result>>

NoCall == [kind |-> "none"]
NoResult == [kind |-> "none"]

Calls ==
    [kind : {"add"}, entry : Entries] \cup [kind : {"get", "remove"}, key : Keys]
    \cup [kind : {"entries"}]

WithKey(k) == {e \in held : KeyOf[e] = k}

AInit ==
    /\ held = {}
    /\ phase = [t \in Threads |-> "idle"]
    /\ call = [t \in Threads |-> NoCall]
    /\ result = [t \in Threads |-> NoResult]

ACall(t) ==
    /\ phase[t] = "idle"
    /\ \E c \in Calls : call' = [call EXCEPT ![t] = c]
    /\ phase' = [phase EXCEPT ![t] = "called"]
    /\ UNCHANGED <<held, result>>

\* The moment at which the call takes effect, with the result r.
Effect(t, r) ==
    /\ phase[t] = "called"
    /\ phase' = [phase EXCEPT ![t] = "done"]
    /\ result' = [result EXCEPT ![t] = r]
    /\ UNCHANGED call

\* An entry is added unless one with its key is held.
AAdd(t) ==
    /\ call[t].kind = "add"
    /\ LET e == call[t].entry
           fresh == WithKey(KeyOf[e]) = {}
       IN /\ Effect(t, [kind |-> "ret", ok |-> fresh])
          /\ held' = IF fresh THEN held \cup {e} ELSE held

\* The entry with the key, or NULL.
AGet(t) ==
    /\ call[t].kind = "get"
    /\ \E e \in Entries \cup {NoEntry} :
          /\ Effect(t, [kind |-> "entry", entry |-> e])
          /\ IF WithKey(call[t].key) = {} THEN e = NoEntry
                                          ELSE e \in WithKey(call[t].key)
    /\ UNCHANGED held

\* The entry with the key is dropped; RET_SUCCEED whether there was one or not.
ARemove(t) ==
    /\ call[t].kind = "remove"
    /\ Effect(t, [kind |-> "ret", ok |-> TRUE])
    /\ held' = held \ WithKey(call[t].key)

\* Every entry exactly once, and their number.
AEntries(t) ==
    /\ call[t].kind = "entries"
    /\ phase[t] = "called"
    /\ phase' = [phase EXCEPT ![t] = "done"]
    /\ result'[t].kind = "array"
    /\ result'[t].number = Cardinality(held)
    /\ Len(result'[t].array) = Cardinality(held)
    /\ {result'[t].array[i] : i \in 1..Len(result'[t].array)} = held
    /\ result' = [result EXCEPT ![t] = result'[t]]
    /\ UNCHANGED <<held, call>>

AReturn(t) ==
    /\ phase[t] = "done"
    /\ phase' = [phase EXCEPT ![t] = "idle"]
    /\ call' = [call EXCEPT ![t] = NoCall]
    /\ result' = [result EXCEPT ![t] = NoResult]
    /\ UNCHANGED held

\* hash_destroy, which the callers run when no call is in progress.
ADestroy ==
    /\ \A t \in Threads : phase[t] = "idle"
    /\ held' = {}
    /\ UNCHANGED <<phase, call, result>>

ANext ==
    \/ \E t \in Threads : \/ ACall(t) \/ AAdd(t) \/ AGet(t) \/ ARemove(t)
                          \/ AEntries(t) \/ AReturn(t)
    \/ ADestroy

ASpec == AInit /\ [][ANext]_avars
=============================================================================
