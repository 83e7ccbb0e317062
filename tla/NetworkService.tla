--------------------------- MODULE NetworkService ---------------------------
(***************************************************************************)
(* What Network_Send and Network_Recv promise to guest programs, without   *)
(* queues, routes and clocks: a send waits until its payload is with the   *)
(* receiver, or fails and leaves nothing behind; a receive takes the       *)
(* payloads in the order of their arrival.  M2MNetwork implements this.    *)
(***************************************************************************)
EXTENDS Naturals, Sequences

CONSTANTS
    Host,      \* devices with a guest program
    Program    \* host -> its calls

VARIABLES
    ip,        \* the call a host makes or makes next
    st,        \* "idle", "wait" in a send, or "got" in a receive
    inbox,     \* the payloads that have reached a host, in order
    taken      \* how many of them its program has received

vars == <<ip, st, inbox, taken>>

Init ==
    /\ ip = [h \in Host |-> 1]
    /\ st = [h \in Host |-> "idle"]
    /\ inbox = [h \in Host |-> << >>]
    /\ taken = [h \in Host |-> 0]

Calls(h, op) == ip[h] <= Len(Program[h]) /\ Program[h][ip[h]].op = op
Sends(h) == Calls(h, "send") /\ Program[h][ip[h]].to \in Host \ {h}

\* The payload of the current send of h, its receiver, and whether it is there.
Payload(h) == [kind |-> "payload", from |-> h, call |-> ip[h]]
Receiver(h) == Program[h][ip[h]].to
There(h) == \E i \in 1 .. Len(inbox[Receiver(h)]) : inbox[Receiver(h)][i] = Payload(h)

Returns(h) == /\ st' = [st EXCEPT ![h] = "idle"]
              /\ ip' = [ip EXCEPT ![h] = @ + 1]

Send(h) ==
    /\ st[h] = "idle"
    /\ Sends(h)
    /\ st' = [st EXCEPT ![h] = "wait"]
    /\ UNCHANGED <<ip, inbox, taken>>

Deliver(h) ==
    /\ st[h] = "wait"
    /\ ~There(h)
    /\ inbox' = [inbox EXCEPT ![Receiver(h)] = Append(@, Payload(h))]
    /\ UNCHANGED <<ip, st, taken>>

Succeed(h) ==
    /\ st[h] = "wait"
    /\ There(h)
    /\ Returns(h)
    /\ UNCHANGED <<inbox, taken>>

\* The guest library tries again.
Fail(h) ==
    /\ st[h] = "wait"
    /\ ~There(h)
    /\ st' = [st EXCEPT ![h] = "idle"]
    /\ UNCHANGED <<ip, inbox, taken>>

Take(h) ==
    /\ st[h] = "idle"
    /\ Calls(h, "recv")
    /\ taken[h] < Len(inbox[h])
    /\ taken' = [taken EXCEPT ![h] = @ + 1]
    /\ st' = [st EXCEPT ![h] = "got"]
    /\ UNCHANGED <<ip, inbox>>

Received(h) ==
    /\ st[h] = "got"
    /\ Returns(h)
    /\ UNCHANGED <<inbox, taken>>

\* A send that is refused or too long, and an exit, have no effect.
Skip(h) ==
    /\ st[h] = "idle"
    /\ ip[h] <= Len(Program[h])
    /\ ~Sends(h)
    /\ ~Calls(h, "recv")
    /\ Returns(h)
    /\ UNCHANGED <<inbox, taken>>

Next == \E h \in Host : \/ Send(h) \/ Deliver(h) \/ Succeed(h) \/ Fail(h)
                        \/ Take(h) \/ Received(h) \/ Skip(h)

Spec == Init /\ [][Next]_vars
=============================================================================
