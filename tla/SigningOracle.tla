---------------------------- MODULE SigningOracle ----------------------------
(***************************************************************************)
(* What the device promises to its user, without a word on how: nothing    *)
(* secret is released but what was asked for, described on the screen from *)
(* the moment it was asked, and confirmed on the last screen; one          *)
(* confirmation releases it once.  In a swap there is no user: one release *)
(* under the mandate of the Exchange app, and the device is closed.        *)
(***************************************************************************)
EXTENDS Integers, Sequences

CONSTANTS
    NeedsApproval(_),   \* what may not leave the device unasked
    Describes(_, _),    \* a screen tells all that the release of a thing means
    MayBeSilent(_),     \* what may be confirmed and then never be answered
    Mandated(_, _),     \* a thing is what the mandate of a swap asks for
    Unattended,         \* in a swap
    NoRequest, NoScreen, Nothing

VARIABLES
    request,    \* what is released if the user confirms
    shown,      \* what is on the screen
    steps,      \* the screens still to be confirmed
    answer,     \* the answer to the last command: its status and its content
    open,       \* a sequence of commands is under way and may be continued
    mandate,    \* what Exchange validated
    closed      \* the device has given its last answer

vars == <<request, shown, steps, answer, open, mandate, closed>>

Answer(status, what) == [status |-> status, what |-> what]
NoAnswer == Answer("none", Nothing)
Error == Answer("error", Nothing)
Ready == request = NoRequest /\ ~closed
Home == request' = NoRequest /\ shown' = NoScreen /\ steps' = 0

Init ==
    /\ request = NoRequest /\ shown = NoScreen /\ steps = 0
    /\ answer = NoAnswer
    /\ ~open /\ ~closed

\* A command is answered at once, with nothing that needs an approval.
Serve ==
    /\ Ready
    /\ answer'.status \in {"ok", "error"}
    /\ ~NeedsApproval(answer'.what)
    /\ answer'.status = "error" => answer'.what = Nothing
    /\ open' \in BOOLEAN
    /\ closed' \in (IF Unattended THEN BOOLEAN ELSE {FALSE})
    /\ UNCHANGED <<request, shown, steps, mandate>>

\* A command asks for what the screen then describes; no answer yet.
Ask ==
    /\ Ready /\ ~Unattended
    /\ request' # NoRequest
    /\ Describes(request', shown')
    /\ steps' >= 1
    /\ answer' = NoAnswer
    /\ open' \in BOOLEAN
    /\ UNCHANGED <<mandate, closed>>

\* The user goes on to the next screen: the request is as it was.
Proceed ==
    /\ steps > 1
    /\ steps' = steps - 1
    /\ UNCHANGED <<request, shown, answer, open, mandate, closed>>

\* The user confirms on the last screen: the request is released, or fails.
Confirm ==
    /\ steps = 1
    /\ Home
    /\ \/ answer' \in {Answer("ok", request), Error}
       \/ MayBeSilent(request) /\ answer' = answer
    /\ open' => open
    /\ UNCHANGED <<mandate, closed>>

\* The user refuses, on any screen.
Refuse ==
    /\ steps >= 1
    /\ Home
    /\ answer' = Error
    /\ open' => open
    /\ UNCHANGED <<mandate, closed>>

\* The transport is reset or the app starts again: what was asked is forgotten,
\* and so is what was sent of an unfinished sequence.
Forget ==
    /\ ~closed
    /\ Home
    /\ answer' = NoAnswer
    /\ ~open'
    /\ UNCHANGED <<mandate, closed>>

\* A swap: the one release, under the mandate, is the last answer.
Settle ==
    /\ Ready /\ Unattended
    /\ answer'.status = "ok"
    /\ Mandated(answer'.what, mandate)
    /\ open' \in BOOLEAN
    /\ closed'
    /\ UNCHANGED <<request, shown, steps, mandate>>

Next == Serve \/ Ask \/ Proceed \/ Confirm \/ Refuse \/ Forget \/ Settle

Spec == Init /\ [][Next]_vars
=============================================================================
