--------------------------- MODULE RequestSession ---------------------------
(***************************************************************************)
(* What the language server promises an editor about requests, with no     *)
(* queues, threads or internal identifiers.  A call is one use of a wire   *)
(* identifier.  While the session runs, a wire identifier names at most    *)
(* one open call; every open call is answered at most once, and the answer *)
(* carries the identifier the call arrived with.  A shutdown answers every *)
(* open call in the step that ends the session.                            *)
(***************************************************************************)
EXTENDS Naturals

CONSTANTS
  Wire,     (* identifiers an editor may put on a request               *)
  NoWire,   (* the identifier of a call that was never made             *)
  Calls     (* one element for every call the session will ever accept  *)

VARIABLES
  running,  (* the session accepts requests                             *)
  state,    (* "unused", "open" or "answered", for every call           *)
  wire,     (* the identifier a call arrived with                       *)
  answer    (* the identifier the answer to a call was sent to          *)

vars == <<running, state, wire, answer>>

Open == {c \in Calls : state[c] = "open"}

Init ==
  /\ running = TRUE
  /\ state = [c \in Calls |-> "unused"]
  /\ wire = [c \in Calls |-> NoWire]
  /\ answer = [c \in Calls |-> NoWire]

Unambiguous(w) == \A d \in Open : wire[d] # w

Accept(c, w) ==
  /\ running
  /\ state[c] = "unused"
  /\ Unambiguous(w)
  /\ state' = [state EXCEPT ![c] = "open"]
  /\ wire' = [wire EXCEPT ![c] = w]
  /\ UNCHANGED <<running, answer>>

Answer(c) ==
  /\ running
  /\ state[c] = "open"
  /\ state' = [state EXCEPT ![c] = "answered"]
  /\ answer' = [answer EXCEPT ![c] = wire[c]]
  /\ UNCHANGED <<running, wire>>

(* The shutdown request c is itself a call, answered with the others.       *)
Shutdown(c, w) ==
  /\ running
  /\ state[c] = "unused"
  /\ Unambiguous(w)
  /\ running' = FALSE
  /\ wire' = [wire EXCEPT ![c] = w]
  /\ state' = [d \in Calls |-> IF d = c \/ d \in Open THEN "answered" ELSE state[d]]
  /\ answer' = [d \in Calls |-> IF d = c \/ d \in Open THEN wire'[d] ELSE answer[d]]

(* The editor goes away: open calls are never answered.                     *)
Leave ==
  /\ running
  /\ running' = FALSE
  /\ UNCHANGED <<state, wire, answer>>

Next ==
  \/ \E c \in Calls, w \in Wire : Accept(c, w) \/ Shutdown(c, w)
  \/ \E c \in Calls : Answer(c)
  \/ Leave

Spec == Init /\ [][Next]_vars
=============================================================================
