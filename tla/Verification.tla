----------------------------- MODULE Verification -----------------------------
(***************************************************************************)
(* The forms that prove an address with a code: registration (User/        *)
(* Register), binding and unbinding an identity (Identity), and binding an *)
(* OAuth account.  The code goes to the address the form held when it was  *)
(* asked for; the form that is submitted later may hold another one.       *)
(***************************************************************************)
EXTENDS Integers, FiniteSets

CONSTANTS CodeForms,    \* the forms a run looks at, records of the form below
          Addresses,    \* what can be typed, or bound and chosen to be unbound
          SendSlots,    \* bound: requests for a code that are out at once
          Wait,         \* the countdown's length, in ticks
          MaxSends      \* bound: codes asked for in all

ASSUME CodeAssumption == Wait \in Nat \ {0} /\ MaxSends \in Nat

VARIABLES codeForm,   \* the form
          address,    \* what it holds: an address, a provider or the identity to unbind
          proof,      \* the address its captcha_id or OAuth state was issued for
          code,       \* the address whose code was typed in
          sends,      \* the requests for a code that are out
          countdown,  \* seconds until the button works again
          timers,     \* the intervals the open form has started and not ended
          strays,     \* the intervals of forms that were left: they count for nobody
          issued,     \* the addresses the service has issued a code for
          submits,    \* the submits: out, and what the form held
          sendCount   \* bound counter

codeVars == <<codeForm, address, proof, code, sends, countdown, timers, strays, issued, submits, sendCount>>

NoAddress == "-"
FreeSend  == [to |-> NoAddress, known |-> FALSE, here |-> FALSE]
NoSubmit  == [address |-> NoAddress, proof |-> NoAddress, code |-> NoAddress]

(***************************************************************************)
(* The forms.  waits: the button is blocked while it works and for a       *)
(* minute after; carries: the answer brings something that the submit      *)
(* sends along (captcha_id, OAuth state); fixed: the address cannot be     *)
(* changed while the form is open; and what a form that is left loses:     *)
(* nothing (the dialogue keeps its fields), what the answer brought, or    *)
(* everything (its component goes, with the flag and the countdown).       *)
(***************************************************************************)
Nothing    == "nothing"
Proof      == "proof"
Everything == "everything"
RegisterForm == [waits |-> TRUE,  carries |-> TRUE,  fixed |-> FALSE, loses |-> Everything]
BindForm     == [waits |-> FALSE, carries |-> FALSE, fixed |-> FALSE, loses |-> Nothing]
OAuthForm    == [waits |-> FALSE, carries |-> TRUE,  fixed |-> FALSE, loses |-> Proof]
UnbindForm   == [waits |-> FALSE, carries |-> FALSE, fixed |-> TRUE,  loses |-> Everything]

\* The requests that are out, and those among them that the open form has sent.
Sending == {s \in SendSlots : sends[s].to # NoAddress}
Asking  == {s \in Sending : sends[s].here}

TypeAddress(a) ==
    /\ a # address /\ (codeForm.fixed => address = NoAddress)
    /\ address' = a
    /\ UNCHANGED <<codeForm, proof, code, sends, countdown, timers, strays, issued, submits, sendCount>>

\* Slip: the button waits for the countdown, not for the request that starts it.
SendCodeTwice ==
    /\ address # NoAddress /\ sendCount < MaxSends
    /\ codeForm.waits => countdown = 0
    /\ \E s \in SendSlots \ Sending : sends' = [sends EXCEPT ![s] = [to |-> address, known |-> FALSE, here |-> TRUE]]
    /\ sendCount' = sendCount + 1
    /\ UNCHANGED <<codeForm, address, proof, code, countdown, timers, strays, issued, submits>>

\* The button that sends a code or fetches the OAuth link, for what the form holds.
SendCode ==
    /\ address # NoAddress /\ sendCount < MaxSends
    /\ codeForm.waits => Asking = {} /\ countdown = 0
    /\ \E s \in SendSlots \ Sending : sends' = [sends EXCEPT ![s] = [to |-> address, known |-> FALSE, here |-> TRUE]]
    /\ sendCount' = sendCount + 1
    /\ UNCHANGED <<codeForm, address, proof, code, countdown, timers, strays, issued, submits>>

\* The service issues the code before it delivers it, which may fail afterwards.
IssueCode(s) ==
    /\ s \in Sending /\ ~sends[s].known
    /\ issued' = issued \cup {sends[s].to}
    /\ sends' = [sends EXCEPT ![s].known = TRUE]
    /\ UNCHANGED <<codeForm, address, proof, code, countdown, timers, strays, submits, sendCount>>

\* The answer: captcha_id or state goes into the form, the countdown starts.  A form
\* that was left meanwhile gets nothing, and starts its interval all the same.
CodeSent(s) ==
    LET here == sends[s].here IN
    /\ s \in Sending /\ sends[s].known
    /\ proof' = IF here /\ codeForm.carries THEN sends[s].to ELSE proof
    /\ countdown' = IF here /\ codeForm.waits THEN Wait ELSE countdown
    /\ timers' = IF here /\ codeForm.waits THEN timers + 1 ELSE timers
    /\ strays' = IF ~here /\ codeForm.waits THEN strays + 1 ELSE strays
    /\ sends' = [sends EXCEPT ![s] = FreeSend]
    /\ UNCHANGED <<codeForm, address, code, issued, submits, sendCount>>

CodeNotSent(s) ==
    /\ s \in Sending
    /\ sends' = [sends EXCEPT ![s] = FreeSend]
    /\ UNCHANGED <<codeForm, address, proof, code, countdown, timers, strays, issued, submits, sendCount>>

\* Slip: an interval ends when it finds less than nothing left.
TickLate ==
    /\ timers > 0
    /\ countdown' = IF countdown >= 0 THEN countdown - timers ELSE 0
    /\ timers' = IF countdown >= 0 THEN timers ELSE 0
    /\ UNCHANGED <<codeForm, address, proof, code, sends, strays, issued, submits, sendCount>>

\* A second passes: every interval of the open form takes one off, and the one that
\* finds one left ends.
Tick ==
    /\ timers > 0
    /\ countdown' = IF countdown > timers THEN countdown - timers ELSE 0
    /\ timers' = IF countdown > timers THEN timers ELSE 0
    /\ UNCHANGED <<codeForm, address, proof, code, sends, strays, issued, submits, sendCount>>

\* The user types a code that was issued; the captcha_id of a failed delivery can be
\* read from Redis and typed too (Register/index.tsx:70).
TypeCode(a) ==
    /\ a \in issued /\ code # a
    /\ code' = a
    /\ UNCHANGED <<codeForm, address, proof, sends, countdown, timers, strays, issued, submits, sendCount>>

\* Bound: one submit is out at a time.
SubmitCode ==
    /\ submits = NoSubmit
    /\ address # NoAddress /\ code # NoAddress /\ (codeForm.waits => proof # NoAddress)
    /\ submits' = [address |-> address, proof |-> IF codeForm.carries THEN proof ELSE NoAddress, code |-> code]
    /\ UNCHANGED <<codeForm, address, proof, code, sends, countdown, timers, strays, issued, sendCount>>

\* A form that is left may be opened again at once: what it lost is all that tells.
\* Nothing clears the interval of a component that goes: its updater is not called any
\* more (at most once, which ends an interval that has one second left), so it runs on.
FormCloses(lost) ==
    /\ address' = IF lost = Everything THEN NoAddress ELSE address
    /\ code' = IF lost = Everything THEN NoAddress ELSE code
    /\ proof' = IF lost = Nothing THEN proof ELSE NoAddress
    /\ IF lost # Everything
       THEN UNCHANGED <<sends, countdown, timers, strays>>
       ELSE /\ sends' = [s \in SendSlots |-> [sends[s] EXCEPT !.here = FALSE]]
            /\ countdown' = 0 /\ timers' = 0
            /\ \E n \in 0 .. timers : (countdown > 1 => n = timers) /\ strays' = strays + n

\* Closed, or the page left by its link, the browser's back or a menu entry; what is
\* out goes on.
LeaveForm ==
    /\ FormCloses(codeForm.loses)
    /\ UNCHANGED <<codeForm, issued, submits, sendCount>>

\* The service accepts: the dialogue closes; registering goes on to another page.
SubmitAccepted ==
    /\ submits # NoSubmit
    /\ FormCloses(codeForm.loses)
    /\ submits' = NoSubmit
    /\ UNCHANGED <<codeForm, issued, sendCount>>

SubmitRefused ==
    /\ submits # NoSubmit
    /\ submits' = NoSubmit
    /\ UNCHANGED <<codeForm, address, proof, code, sends, countdown, timers, strays, issued, sendCount>>

CodeInit ==
    /\ codeForm \in CodeForms
    /\ address = NoAddress /\ proof = NoAddress /\ code = NoAddress
    /\ sends = [s \in SendSlots |-> FreeSend]
    /\ countdown = 0 /\ timers = 0 /\ strays = 0
    /\ issued = {} /\ submits = NoSubmit
    /\ sendCount = 0

CodeNext ==
    \/ \E a \in Addresses : TypeAddress(a) \/ TypeCode(a)
    \/ SendCode \/ Tick \/ SubmitCode \/ LeaveForm \/ SubmitAccepted \/ SubmitRefused
    \/ \E s \in SendSlots : IssueCode(s) \/ CodeSent(s) \/ CodeNotSent(s)

CodeSpec == CodeInit /\ [][CodeNext]_codeVars

(***************************************************************************)
(* Properties.                                                             *)
(***************************************************************************)
\* What each variable may hold.
CodeTypeOK ==
    /\ codeForm \in CodeForms
    /\ {address, proof, code} \subseteq Addresses \cup {NoAddress}
    /\ sends \in [SendSlots -> [to : Addresses \cup {NoAddress}, known : BOOLEAN, here : BOOLEAN]]
    /\ countdown \in 0 .. Wait /\ timers \in Nat /\ strays \in Nat
    /\ issued \subseteq Addresses
    /\ submits \in [address : Addresses \cup {NoAddress}, proof : Addresses \cup {NoAddress},
                    code : Addresses \cup {NoAddress}]

\* While it stays open the registration form never asks for a second code before the
\* minute is over, and never has a second interval: the countdown runs exactly while one
\* does, and no request of the form is out meanwhile.  A form that was left and opened
\* again knows nothing of the request and the interval it left behind.
OneIntervalPerVisit ==
    codeForm.waits =>
      /\ timers = IF countdown = 0 THEN 0 ELSE 1
      /\ Cardinality(Asking) + timers <= 1
=============================================================================
