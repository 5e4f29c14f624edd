----------------------------- MODULE MCVcpuIrq ------------------------------
(* Small instances of VcpuIrq: the reset (0), undefined instruction (1) and *)
(* external interrupt (6) lines of arm32, with its priorities.              *)
EXTENDS VcpuIrq

CONSTANTS d1, d2

Prios == [i \in Irq |-> CASE i = 0 -> 0 [] i = 6 -> 2 [] OTHER -> 1]

\* One emulator asserts and deasserts, the other wakes; the trap handler
\* waits, and asserts exceptions.
Roles ==
  [d \in Device \cup {Self} |->
     IF d = Self THEN {"assert", "wait"}
     ELSE IF d = d1 THEN {"assert", "deassert"} ELSE {"wake"}]

\* The devices drive the external interrupt, the trap handler the exception.
LinesOf == [d \in Device \cup {Self} |-> IF d = Self THEN {1} ELSE {6}]

\* A device is wired to the reset line too.
WithReset == [d \in Device \cup {Self} |-> IF d = Self THEN {1} ELSE {0, 6}]

TwoAndOne == [d \in Device \cup {Self} |-> IF d = d2 THEN 1 ELSE 2]

ThreeEach == [d \in Device \cup {Self} |-> 3]

=============================================================================
