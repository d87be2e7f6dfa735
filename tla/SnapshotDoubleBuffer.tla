------------------------ MODULE SnapshotDoubleBuffer ------------------------
(***************************************************************************)
(* The latest-value slot between one pane's IO thread (the producer) and   *)
(* its single consumer: the embedded backend's main thread, or the daemon. *)
(* Every method holds the slot's mutex from start to end, so each one is a *)
(* state transformer here and one step of the modules that use it.         *)
(*                                                                         *)
(* A content is a record with at least the field all_dirty; what else it   *)
(* carries is the business of the module that uses the slot.               *)
(***************************************************************************)
EXTENDS Naturals

NewSlot(empty) == [front |-> empty, seqno |-> 0, consumed |-> 0]

HasNew(slot) == slot.seqno > slot.consumed

(* What can go wrong in flip_swap: a skipped snapshot takes its damage     *)
(* with it.                                                                *)
FlipSwapForgetsSkipped(slot, buf) ==
    [front |-> buf, seqno |-> slot.seqno + 1, consumed |-> slot.consumed]

(* The slot after the IO thread's flip.  Its work buffer then holds the    *)
(* old front, which renderable_content_into overwrites before the next     *)
(* flip; it is therefore not part of the state.                            *)
FlipSwap(slot, buf) ==
    [front    |-> IF HasNew(slot) THEN [buf EXCEPT !.all_dirty = TRUE] ELSE buf,
     seqno    |-> slot.seqno + 1,
     consumed |-> slot.consumed]

(* The slot after the consumer's swap, and the buffer the consumer is left *)
(* with: both unchanged when there is nothing new.                         *)
SwapFront(slot, buf) ==
    IF HasNew(slot) THEN [front |-> buf, seqno |-> slot.seqno, consumed |-> slot.seqno]
                    ELSE slot

SwappedBuffer(slot, buf) == IF HasNew(slot) THEN slot.front ELSE buf
=============================================================================
