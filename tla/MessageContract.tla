-------------------------- MODULE MessageContract --------------------------
(***************************************************************************)
(* What a widget may rely on when it sends a message with an idempotency   *)
(* key, with the pipeline that provides it left out: a key is taken up at  *)
(* most once and settles at most once, slots are limited, and everybody    *)
(* who gets a 200 for a key gets the same answer to the same body.         *)
(***************************************************************************)
EXTENDS Integers

CONSTANTS Sessions, Keys, Bodies, Requests, MaxMessages, None

VARIABLES
  fate,    \* of each key of each session
  used,    \* slots charged to each session
  answer,  \* the body and the generation behind an answered key
  told     \* the 200 responses sent: <<session, key, <<body, generation>>>>

contract == <<fate, used, answer, told>>

Init ==
  /\ fate = [sk \in Sessions \X Keys |-> "free"]
  /\ used = [s \in Sessions |-> 0]
  /\ answer = [sk \in Sessions \X Keys |-> None]
  /\ told = {}

Charge(s) == used[s] < MaxMessages /\ used' = [used EXCEPT ![s] = @ + 1]

\* The key is taken up and charged; its answer is being generated.
Open(s, k) ==
  /\ fate[<<s, k>>] = "free"
  /\ fate' = [fate EXCEPT ![<<s, k>>] = "open"]
  /\ Charge(s)
  /\ UNCHANGED <<answer, told>>

\* The key is refused for good, before any generation.
Refuse(s, k) ==
  /\ fate[<<s, k>>] = "free"
  /\ fate' = [fate EXCEPT ![<<s, k>>] = "refused"]
  /\ Charge(s) \/ UNCHANGED used
  /\ UNCHANGED <<answer, told>>

\* The generation failed.
Fail(s, k) ==
  /\ fate[<<s, k>>] = "open"
  /\ fate' = [fate EXCEPT ![<<s, k>>] = "refused"]
  /\ UNCHANGED <<used, answer, told>>

\* The answer is stored and sent to the client that asked first.
Settle(s, k, b, r) ==
  /\ fate[<<s, k>>] = "open"
  /\ fate' = [fate EXCEPT ![<<s, k>>] = "answered"]
  /\ answer' = [answer EXCEPT ![<<s, k>>] = <<b, r>>]
  /\ told' = told \cup {<<s, k, <<b, r>>>>}
  /\ UNCHANGED used

\* The stored answer is sent again.
Replay(s, k) ==
  /\ fate[<<s, k>>] = "answered"
  /\ told' = told \cup {<<s, k, answer[<<s, k>>]>>}
  /\ UNCHANGED <<fate, used, answer>>

Next ==
  \E s \in Sessions, k \in Keys :
    \/ Open(s, k) \/ Refuse(s, k) \/ Fail(s, k) \/ Replay(s, k)
    \/ \E b \in Bodies, r \in Requests : Settle(s, k, b, r)

Spec == Init /\ [][Next]_contract
=============================================================================
