----------------------------- MODULE BrowserPin -----------------------------
(***************************************************************************)
(* The PIN that a browser is asked for over the tunnel: it is generated,   *)
(* revoked and submitted by requests that run side by side; failures of an *)
(* address are counted, and each is taken back a minute later.  Left out:  *)
(* the digits and the pages.                                               *)
(*                                                                         *)
(* Source: internal/tunnel/pin.go.                                         *)
(***************************************************************************)
EXTENDS Naturals, FiniteSets

CONSTANTS
    Guess,     \* submissions, all from one address
    MaxTries,   \* failures after which an address is refused (5)
    MaxPins     \* bound: PINs generated

PinAssumption == MaxTries \in Nat \ {0} /\ MaxPins \in Nat

VARIABLES
    pin,        \* the PIN in force, 0 if none
    pins,       \* PINs generated
    sessions,   \* submissions that have a session, with the PIN they knew
    tries,      \* failures counted for the address
    decays,     \* failures that will be taken back
    sub         \* per submission: pc, the PIN it knows, the hash it read

vars == <<pin, pins, sessions, tries, decays, sub>>

Init ==
    /\ pin = 0 /\ pins = 0 /\ sessions = {} /\ tries = 0 /\ decays = 0
    /\ sub = [s \in Guess |-> [pc |-> "idle", knows |-> 0, read |-> 0]]

Goes(s, pc) == sub' = [sub EXCEPT ![s].pc = pc]

GeneratePIN ==
    /\ pins < MaxPins
    /\ pins' = pins + 1 /\ pin' = pins + 1
    /\ UNCHANGED <<sessions, tries, decays, sub>>

RevokePIN ==
    /\ pin # 0 /\ pin' = 0 /\ sessions' = {}
    /\ UNCHANGED <<pins, tries, decays, sub>>

\* A session ends after a day.
SessionExpires ==
    /\ \E x \in sessions : sessions' = sessions \ {x}
    /\ UNCHANGED <<pin, pins, tries, decays, sub>>

-----------------------------------------------------------------------------
(* handlePINSubmit.                                                            *)

\* The count is read in one critical section and raised in another.
Arrive(s, knows) ==
    /\ sub[s].pc = "idle" /\ pin # 0
    /\ IF tries >= MaxTries THEN Goes(s, "refused")
       ELSE sub' = [sub EXCEPT ![s] = [pc |-> "hash", knows |-> knows, read |-> 0]]
    /\ UNCHANGED <<pin, pins, sessions, tries, decays>>

\* ValidatePIN reads the hash, compares without the lock, and then enters a session.
ReadHash(s) ==
    /\ sub[s].pc = "hash"
    /\ sub' = [sub EXCEPT ![s].pc = IF pin # 0 /\ pin = sub[s].knows THEN "valid" ELSE "wrong",
                          ![s].read = pin]
    /\ UNCHANGED <<pin, pins, sessions, tries, decays>>

Enter(s) ==
    /\ sub[s].pc = "valid" /\ Goes(s, "entered")
    /\ sessions' = sessions \cup {<<s, sub[s].read>>}
    /\ UNCHANGED <<pin, pins, tries, decays>>

\* Success forgets the failures of the address, whose minutes still run.
Forget(s) ==
    /\ sub[s].pc = "entered" /\ Goes(s, "done")
    /\ tries' = 0
    /\ UNCHANGED <<pin, pins, sessions, decays>>

\* Fault: a failure that meets the limit is not taken back.
WrongKeepsLast(s) ==
    /\ sub[s].pc = "wrong" /\ Goes(s, "done")
    /\ tries' = tries + 1
    /\ decays' = IF tries' >= MaxTries THEN decays ELSE decays + 1
    /\ UNCHANGED <<pin, pins, sessions>>

Wrong(s) ==
    /\ sub[s].pc = "wrong" /\ Goes(s, "done")
    /\ tries' = tries + 1 /\ decays' = decays + 1
    /\ UNCHANGED <<pin, pins, sessions>>

\* A minute later; the count does not go below zero.
TakeBack ==
    /\ decays > 0 /\ decays' = decays - 1
    /\ tries' = IF tries > 0 THEN tries - 1 ELSE 0
    /\ UNCHANGED <<pin, pins, sessions, sub>>

-----------------------------------------------------------------------------
Next ==
    \/ GeneratePIN \/ RevokePIN \/ SessionExpires \/ TakeBack
    \/ \E s \in Guess : \/ \E k \in 0 .. MaxPins : Arrive(s, k)
                         \/ ReadHash(s) \/ Enter(s) \/ Forget(s) \/ Wrong(s)

Spec == Init /\ [][Next]_vars

-----------------------------------------------------------------------------
TypeOK ==
    /\ pin \in 0 .. MaxPins /\ pins \in 0 .. MaxPins
    /\ sessions \subseteq Guess \X (1 .. MaxPins)
    /\ tries \in Nat /\ decays \in Nat
    /\ sub \in [Guess -> [pc : {"idle", "refused", "hash", "valid", "wrong", "entered",
                                 "done"},
                           knows : 0 .. MaxPins, read : 0 .. MaxPins]]

\* An address that is refused will be let in again: every failure that still counts will
\* be taken back, however submissions, successes and minutes interleave (pin.go:169).
RefusalPasses == tries <= decays
====
