----------------------------- MODULE ControlUnit -----------------------------
(***************************************************************************)
(* The registers of ControlUnit.v and their clock edge.  The component     *)
(* has no next-state relation of its own: Core enables it (en) and         *)
(* conjoins ControlClock to its commit action.                             *)
(***************************************************************************)
EXTENDS Sequencer

CONSTANTS
  NIrq,       \* interrupt sources, 0 the most urgent; 5 in the code
  Program,    \* opcodes a fetch may find
  Prefixes    \* opcodes of the CB page a prefix fetch may find

ASSUME ControlAssumption ==
  /\ NIrq \in 1..5
  /\ Program \subseteq Opcode
  /\ Prefixes \subseteq Opcode

Irq   == 0..(NIrq - 1)
NoIrq == 7                        \* what the priority encoder says of no request

VARIABLES
  IR, IR_prefix,
  state, intr_state,
  service,                        \* service_interrupt
  IME,
  ack,                            \* ack_IF: {} or the one line acknowledged
  vec                             \* the source whose vector went into PCL, until the fetch there

controlVars == <<IR, IR_prefix, state, intr_state, service, IME, ack, vec>>

(* PriorityEncoder5: the lowest requested and enabled source. *)
NextInterrupt(pending) ==
  IF pending = {} THEN NoIrq ELSE CHOOSE i \in pending : \A j \in pending : i <= j

(* The outputs of the control unit, pending being IE & IF. *)
Outputs(cc, armed, pending, wake) ==
  IF service
  THEN Serve(intr_state)
  ELSE Arbitrate(Instruction(IR, IR_prefix, state, cc, armed, pending # {}),
                 IR, IME, pending # {}, wake)

(* The write output on its own: it depends on registers only. *)
Writing ==
  "write" \in (IF service THEN Serve(intr_state)
                          ELSE Instruction(IR, IR_prefix, state, FALSE, FALSE, FALSE)).on

ControlInit ==
  /\ IR = 0 /\ IR_prefix = 0
  /\ state = 0 /\ intr_state = 0
  /\ service = FALSE
  /\ IME = FALSE
  /\ ack = {}
  /\ vec = NoIrq

(* The clock edge with en = 1: sig are the outputs of the cycle that ends. *)
ControlClock(sig, pending) ==
  /\ state' = sig.next
  /\ intr_state' = sig.inext
  /\ service' = ("service" \in sig.on)
  /\ IR' \in IF "fetch" \in sig.on THEN Program ELSE {IR}
  /\ IR_prefix' \in IF "fetch_prefix" \in sig.on THEN Prefixes ELSE {IR_prefix}
  /\ IME' = ("unset_IME" \notin sig.on /\ ("set_IME" \in sig.on \/ IME))
  /\ ack' = IF "ack_IF" \in sig.on THEN {NextInterrupt(pending)} ELSE {}
  /\ vec' = IF sig.rd = "PCL" THEN NextInterrupt(pending)
            ELSE IF "fetch" \in sig.on THEN NoIrq ELSE vec

ControlTypeOK ==
  /\ IR \in Opcode /\ IR_prefix \in Opcode
  /\ state \in State /\ intr_state \in State
  /\ service \in BOOLEAN
  /\ IME \in BOOLEAN
  /\ ack \in SUBSET (Irq \cup {NoIrq})
  /\ vec \in Irq \cup {NoIrq}
=============================================================================
