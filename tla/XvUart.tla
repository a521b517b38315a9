------------------------------ MODULE XvUart ------------------------------
(***************************************************************************)
(* Output through the UART of xv6 (kernel/uart.c): write() puts characters *)
(* into uart_tx_buf (consolewrite() of kernel/console.c), uartstart() moves *)
(* them to the device, called by the writer and by the interrupt that the  *)
(* device raises when it is ready for more.  uartputc_sync(), which echoes *)
(* input and prints for the kernel, takes no lock.                         *)
(***************************************************************************)
EXTENDS Naturals

CONSTANTS
  Proc,
  Nobody, Interrupt,  \* no owner, and the interrupt as the owner, of uart_tx_lock
  BufSize             \* UART_TX_BUF_SIZE

OwnerAssumption == Nobody # Interrupt /\ {Nobody, Interrupt} \cap Proc = {}
BufAssumption == BufSize \in Nat \ {0}

VARIABLES
  waiting,  \* uart_tx_w - uart_tx_r; what the characters are does not matter
  lock,     \* owner of uart_tx_lock
  asleep,   \* writers that sleep on &uart_tx_r
  thr,      \* "idle" iff LSR_TX_IDLE is set
  irq       \* the device has raised an interrupt that no CPU has taken

vars == <<waiting, lock, asleep, thr, irq>>

TypeOK ==
  /\ waiting \in 0 .. BufSize
  /\ lock \in Proc \cup {Nobody, Interrupt}
  /\ asleep \subseteq Proc
  /\ thr \in {"idle", "busy"} /\ irq \in BOOLEAN

Init ==
  /\ waiting = 0 /\ lock = Nobody /\ asleep = {} /\ thr = "idle" /\ irq = FALSE

\* Mutant of Putc: no test for a full buffer.
PutcUnbounded(p) ==
  /\ lock = Nobody /\ p \notin asleep
  /\ waiting' = waiting + 1
  /\ lock' = p
  /\ UNCHANGED <<asleep, thr, irq>>

\* uartputc() up to the call of uartstart(), for a process in consolewrite();
\* it sleeps on a full buffer.
Putc(p) ==
  /\ lock = Nobody /\ p \notin asleep
  /\ IF waiting = BufSize
       THEN /\ asleep' = asleep \cup {p}
            /\ UNCHANGED <<waiting, lock>>
       ELSE /\ waiting' = waiting + 1
            /\ lock' = p
            /\ UNCHANGED asleep
  /\ UNCHANGED <<thr, irq>>

\* Mutant of StartSend: uartstart() does not tell the writers.
StartSendQuietly ==
  /\ lock # Nobody /\ waiting > 0 /\ thr = "idle"
  /\ waiting' = waiting - 1
  /\ thr' = "busy"
  /\ UNCHANGED <<lock, asleep, irq>>

\* uartstart(): a character goes to the device ...
StartSend ==
  /\ lock # Nobody /\ waiting > 0 /\ thr = "idle"
  /\ waiting' = waiting - 1
  /\ thr' = "busy"
  /\ asleep' = {}
  /\ UNCHANGED <<lock, irq>>

\* ... until the buffer is empty or the device busy; the caller unlocks.
StartReturn ==
  /\ lock # Nobody /\ (waiting = 0 \/ thr = "busy")
  /\ lock' = Nobody
  /\ UNCHANGED <<waiting, asleep, thr, irq>>

\* A write cut short, or a process killed while it sleeps: its loop looks again.
Killed(p) ==
  /\ p \in asleep
  /\ asleep' = asleep \ {p}
  /\ UNCHANGED <<waiting, lock, thr, irq>>

\* uartputc_sync()
PutcSync ==
  /\ thr = "idle"
  /\ thr' = "busy"
  /\ UNCHANGED <<waiting, lock, asleep, irq>>

\* The device has sent what it had.
Sent ==
  /\ thr = "busy"
  /\ thr' = "idle" /\ irq' = TRUE
  /\ UNCHANGED <<waiting, lock, asleep>>

\* uartintr(), after the input (see XvConsole).
Intr ==
  /\ irq /\ lock = Nobody
  /\ irq' = FALSE /\ lock' = Interrupt
  /\ UNCHANGED <<waiting, asleep, thr>>

Next ==
  \/ \E p \in Proc : Putc(p) \/ Killed(p)
  \/ StartSend \/ StartReturn \/ PutcSync \/ Sent \/ Intr

Spec == Init /\ [][Next]_vars

-----------------------------------------------------------------------------
(* Properties *)

\* Output never gets stuck: what is in the buffer when the lock is free has an
\* interrupt to come that will move it on, also when an echo took the device
\* in between; and a writer sleeps only on a full buffer (uart.c:98).
OutputMoves ==
  lock = Nobody =>
    /\ waiting > 0 => thr = "busy" \/ irq
    /\ asleep # {} => waiting = BufSize
=============================================================================
