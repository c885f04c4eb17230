----------------------------- MODULE Priorities -----------------------------
(***************************************************************************)
(* scars/src/priority.rs: priorities of threads and interrupts, their i16  *)
(* form and the word that holds the two lock priorities of a context.  A   *)
(* PriorityStatus is a record; the value of Invalid is 0 (get_value).      *)
(***************************************************************************)
EXTENDS Integers

Bytes == 0 .. 255
Thread(p) == [kind |-> "Thread", value |-> p]
Interrupt(p) == [kind |-> "Interrupt", value |-> p]
Invalid == [kind |-> "Invalid", value |-> 0]

Priority == [kind : {"Thread", "Interrupt"}, value : Bytes]
PriorityStatus == Priority \cup {Invalid}

\* maxu8
MaxU8(a, b) == IF a > b THEN a ELSE b

\* PriorityStatus::max, and Priority::max and max_valid on the valid ones
StatusMax(p, q) ==
  CASE p.kind = q.kind -> [kind |-> p.kind, value |-> MaxU8(p.value, q.value)]
    [] p.kind = "Invalid" -> q
    [] q.kind = "Invalid" -> p
    [] OTHER -> IF p.kind = "Interrupt" THEN p ELSE q

\* partial_cmp of two valid priorities
Less(p, q) ==
  IF p.kind = q.kind THEN p.value < q.value ELSE p.kind = "Thread" /\ q.kind = "Interrupt"

INTERRUPT_BIT == 16384
INVALID_PRIORITY == -1

\* into_any: an i16
IntoAny(p) ==
  CASE p.kind = "Thread" -> p.value
    [] p.kind = "Interrupt" -> p.value + INTERRUPT_BIT
    [] OTHER -> INVALID_PRIORITY

\* from_any
FromAny(a) ==
  CASE a = INVALID_PRIORITY -> Invalid
    [] (a \div INTERRUPT_BIT) % 2 = 1 -> Interrupt(a % 256)
    [] OTHER -> Thread(a % 256)

\* The casts between i16 and u16
AsU16(a) == a % 65536
AsI16(u) == IF u >= 32768 THEN u - 65536 ELSE u

\* from_status_pair and to_status_pair: the u32 as its lower and its upper half
FromStatusPair(p, q) == [lo |-> AsU16(IntoAny(p)), hi |-> AsU16(IntoAny(q))]
ToStatusPair(w) == <<FromAny(AsI16(w.lo)), FromAny(AsI16(w.hi))>>
=============================================================================
