------------------------------- MODULE UartLink -------------------------------
(***************************************************************************)
(* Questions and answers on the drive's UART: request() with the input it    *)
(* drains first and the lines it ignores, and replies that come when nobody   *)
(* waits for them any more.  They are not numbered, and the drive answers in  *)
(* the order of the questions.                                                *)
(*                                                                           *)
(* When a reply comes is left open: in time, after the question has been given *)
(* up, while the next one drains the input, so that its beginning is gone, or  *)
(* later.  A damaged line is taken to fail its checksum.                       *)
(***************************************************************************)
EXTENDS Integers, Sequences, FiniteSetsExt

CONSTANTS
    Properties,  \* what readUnsigned() and readFloat() are asked for
    MaxOwed      \* replies still under way after a question

ASSUME UartAssumption == "feedback" \notin Properties /\ MaxOwed \in Nat

VARIABLES
    owed,      \* the replies nobody has read, oldest first
    received,  \* how many of them are in the input buffer
    asked,     \* the last question
    answered,  \* it was answered,
    byItself,  \* with the reply to it,
    replied,   \* history: which came while it waited,
    intact,    \* history: without damage
    before     \* history: replied, of the question before

uartVars == <<owed, received, asked, answered, byItself, replied, intact, before>>

-----------------------------------------------------------------------------
(* A transaction *)

\* A faulty variant: a feedback request ends with any valid line.
FitsAny(reply, of) == reply.intact

\* A valid line, and for feedback one with a space in it.
Fits(reply, of) == reply.intact /\ (of = "feedback" => reply.of = "feedback")

\* A faulty variant: the input is not drained.
DrainedNever(n, cut) == owed

\* drainInput() with n replies received since; the next may lose its beginning.
Drained(n, cut) ==
    LET rest == SubSeq(owed, n + 1, Len(owed))
    IN  IF cut /\ rest # <<>> THEN [rest EXCEPT ![1].intact = FALSE] ELSE rest

\* The lines a question may meet, before the reply to it.
Lines == {Drained(n, cut) : n \in received .. Len(owed), cut \in BOOLEAN}

\* The reply to it, if there is one.
Replies(of) == {<<>>} \cup {<<[of |-> of, intact |-> ok]>> : ok \in BOOLEAN}

\* parseFeedback() takes two numbers; readUnsigned() and readFloat() take one.
Parsed(reply, of) == reply.of = "feedback" <=> of = "feedback"

\* request(), while the first n lines come in time: it ends with the first that
\* fits, whatever was asked for, and reads the others in vain.
Request(of) ==
    \E old \in Lines, own \in Replies(of) :
        LET line == old \o own
        IN  \E n \in 0 .. Len(line) :
                LET fitting == {i \in 1 .. n : Fits(line[i], of)}
                    end == IF fitting = {} THEN n ELSE Min(fitting)
                IN  /\ Len(line) - end <= MaxOwed
                    /\ asked' = of
                    /\ answered' = (fitting # {} /\ Parsed(line[end], of))
                    /\ byItself' = (answered' /\ end > Len(old))
                    /\ owed' = SubSeq(line, end + 1, Len(line))
                    /\ received' = n - end
                    /\ replied' = (own # <<>> /\ n = Len(line))
                    /\ intact' = (replied' /\ own[1].intact)
                    /\ before' = replied

Feedback == Request("feedback")
ReadProperty == \E property \in Properties : Request(property)

UartInit ==
    /\ owed = <<>> /\ received = 0 /\ asked = "none"
    /\ answered = FALSE /\ byItself = FALSE
    /\ replied = FALSE /\ intact = FALSE /\ before = FALSE

UartNext == Feedback \/ ReadProperty

UartSpec == UartInit /\ [][UartNext]_uartVars

-----------------------------------------------------------------------------
(* Properties *)

UartTypeOK ==
    /\ Len(owed) <= MaxOwed /\ received \in 0 .. Len(owed)
    /\ asked \in Properties \cup {"none", "feedback"}
    /\ {answered, byItself, replied, intact, before} \subseteq BOOLEAN

\* main.cpp:83 and README.md:142: whatever late, cut or damaged lines come first, a
\* feedback request is answered when its reply comes undamaged and in time.
LateLinesCostNoFeedback == asked = "feedback" /\ intact => answered

\* main.cpp:83: a property query may be answered with a late reply to another, which
\* leaves its own reply to the next one; a reply that comes while it is waited for
\* ends this mix-up, even when it was not the one that was taken.
MixUpEnds == before /\ answered => byItself
=============================================================================
