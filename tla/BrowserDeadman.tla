--------------------------- MODULE BrowserDeadman ---------------------------
(***************************************************************************)
(* The Space dead-man of the browser page (web/app.js) and the Teensy's end  *)
(* of it: key and focus events, the 150 ms heartbeat, the trial start that   *)
(* awaits a hold message first, the disconnect that awaits a release, the    *)
(* serial writes they queue, and the lines as the Teensy executes them.      *)
(*                                                                           *)
(* The page is one thread: an event handler runs to its first await, and     *)
(* what follows the await runs when the write it waits for resolves.  A      *)
(* queued write therefore carries its continuation.  Both start buttons run  *)
(* the same code, so there is one start; its page is the one that is shown.  *)
(* The key and the focus are the operator's, the port and the process        *)
(* the system's: a cable may be pulled, a page may vanish without a word.    *)
(***************************************************************************)
EXTENDS Integers, Sequences, FiniteSets

CONSTANTS
    MaxWrites,    \* lines queued by the page and not yet taken by the Teensy
    DeadmanBeats  \* heartbeat periods within the Teensy's 450 ms

ASSUME PageAssumption ==
    MaxWrites \in Nat \ {0} /\ DeadmanBeats \in Nat \ {0}

VARIABLES
    spaceHeld, heartbeat,   \* state.spaceHeld, state.deadmanTimer
    focused,                \* document.hasFocus() && !document.hidden
    connected,              \* state.connected, and there is a writer
    startSent,              \* state.tuneStartSentForHold and its twin
    shown,                  \* what the last telemetry line said
    writes,                 \* writes queued on the port, with continuations
    plugged,                \* the cable is in
    lines,                  \* lines on their way to the Teensy
    teensy                  \* the Teensy's mode, dead-man and half-read line

pageVars == <<spaceHeld, heartbeat, focused, connected, startSent, shown, writes>>
portVars == <<plugged, lines, teensy>>
browserVars == <<pageVars, portVars>>

Words == {"deadman_hold", "deadman_release", "start", "disarm"}

\* What waits for a write: nothing, the second half of a start, the look at
\* whether the start itself went out, or the rest of disconnect().
Continuations == {"none", "start", "started", "close"}

WriteOf(word, then) == [word |-> word, then |-> then]
Hold == WriteOf("deadman_hold", "none")
Release == WriteOf("deadman_release", "none")

-----------------------------------------------------------------------------
(* The Teensy *)

\* A faulty variant: the time stamp is not looked at.
FreshForever(t) == t.held

Fresh(t) == t.held /\ t.age < DeadmanBeats

\* executeCommand() on one line.  A start may be refused for other reasons, and
\* a line that comes after the beginning of another is an unknown command.
Executed(t, word, allowed) ==
    IF t.cut THEN [t EXCEPT !.cut = FALSE]
    ELSE CASE word = "deadman_hold" -> [t EXCEPT !.held = TRUE, !.age = 0]
           [] word = "deadman_release" ->
                [t EXCEPT !.held = FALSE,
                          !.mode = IF @ = "TRIAL" THEN "DISARMED" ELSE @]
           [] word = "disarm" -> [t EXCEPT !.mode = "DISARMED"]
           [] word = "start" ->
                [t EXCEPT !.mode =
                    IF allowed /\ @ = "DISARMED" /\ Fresh(t)
                    THEN "TRIAL" ELSE @]

Execute ==
    /\ lines # <<>>
    /\ lines' = Tail(lines)
    /\ \E allowed \in BOOLEAN : teensy' = Executed(teensy, Head(lines), allowed)
    /\ UNCHANGED <<pageVars, plugged>>

\* A heartbeat period passes on the Teensy's clock.
Age ==
    /\ teensy.age < DeadmanBeats
    /\ teensy' = [teensy EXCEPT !.age = @ + 1]
    /\ UNCHANGED <<pageVars, plugged, lines>>

\* The control tick of a trial: stateIsHealthy() looks at the dead-man.
TickFaults ==
    /\ teensy.mode = "TRIAL" /\ ~Fresh(teensy)
    /\ teensy' = [teensy EXCEPT !.mode = "FAULT"]
    /\ UNCHANGED <<pageVars, plugged, lines>>

\* A trial ends on its own, by its time limit or by another fault.
TrialFaults ==
    /\ teensy.mode = "TRIAL"
    /\ teensy' = [teensy EXCEPT !.mode = "FAULT"]
    /\ UNCHANGED <<pageVars, plugged, lines>>

-----------------------------------------------------------------------------
(* The page *)

SpaceControlIsActive == spaceHeld /\ focused

\* The start button is enabled: every check is good and the mode is a safe one.
StartEnabled == connected /\ shown = "ready" /\ SpaceControlIsActive

\* The lines on their way, and those that starts under way will add.
Starts(list) == {i \in DOMAIN list : list[i].then = "start"}
Load == Len(writes) + Len(lines) + Cardinality(Starts(writes))
Room(n) == Load + n <= MaxWrites

\* send() returns at once on a closed connection.
Sent(list) == IF connected THEN writes \o list ELSE writes

\* A handler queues writes and ends with render(), which starts a trial by
\* itself once in a hold: startTrial() up to its await.
Render(queued, sentBefore) ==
    LET starts == StartEnabled' /\ ~sentBefore
    IN  /\ startSent' = (sentBefore \/ starts)
        /\ writes' = IF starts
                     THEN Append(queued, WriteOf("deadman_hold", "start"))
                     ELSE queued

\* beginSpaceDeadman()
Press ==
    /\ focused /\ ~spaceHeld /\ connected /\ Room(3)
    /\ spaceHeld' = TRUE /\ heartbeat' = TRUE
    /\ UNCHANGED <<focused, connected, shown, portVars>>
    /\ Render(Sent(<<Hold>>), FALSE)

\* A faulty variant: wasHeld is computed after the flags were cleared.
ReleaseDeadmanSilent ==
    /\ spaceHeld' = FALSE /\ heartbeat' = FALSE
    /\ startSent' = FALSE /\ UNCHANGED writes

\* releaseSpaceDeadman(false): a release goes out if there was a hold.
ReleaseDeadman ==
    /\ spaceHeld' = FALSE /\ heartbeat' = FALSE
    /\ startSent' = FALSE
    /\ writes' = IF spaceHeld \/ heartbeat THEN Sent(<<Release>>) ELSE writes

KeyUp ==
    /\ Room(1) /\ spaceHeld
    /\ ReleaseDeadman
    /\ UNCHANGED <<focused, connected, shown, portVars>>

\* The page loses the focus or is hidden; the event for it is dispatched later.
LoseFocus ==
    /\ focused /\ focused' = FALSE
    /\ UNCHANGED <<spaceHeld, heartbeat, connected, startSent, shown, writes,
                   portVars>>

GainFocus ==
    /\ ~focused /\ focused' = TRUE
    /\ UNCHANGED <<spaceHeld, heartbeat, connected, startSent, shown, writes,
                   portVars>>

\* The blur or visibilitychange listener.
Blur ==
    /\ ~focused /\ spaceHeld /\ Room(1)
    /\ ReleaseDeadman
    /\ UNCHANGED <<focused, connected, shown, portVars>>

\* The interval timer of a hold.
Beat ==
    /\ heartbeat /\ Room(1)
    /\ IF SpaceControlIsActive
       THEN /\ writes' = Sent(<<Hold>>)
            /\ UNCHANGED <<spaceHeld, heartbeat, startSent>>
       ELSE ReleaseDeadman
    /\ UNCHANGED <<focused, connected, shown, portVars>>

\* A click on a start button, which looks at no flag of this hold.
Click ==
    /\ StartEnabled /\ Room(2)
    /\ startSent' = TRUE
    /\ writes' = Append(writes, WriteOf("deadman_hold", "start"))
    /\ UNCHANGED <<spaceHeld, heartbeat, focused, connected, shown, portVars>>

DisarmClick ==
    /\ connected /\ shown \in {"TRIAL", "FAULT"} /\ Room(1)
    /\ writes' = Append(writes, WriteOf("disarm", "none"))
    /\ UNCHANGED <<spaceHeld, heartbeat, focused, connected, startSent, shown,
                   portVars>>

\* A telemetry line and the render() at its end.  A DISARMED controller is
\* ready for a start when it has a fresh dead-man and the other checks hold.
Telemetry ==
    /\ connected /\ plugged /\ Room(2)
    /\ shown' \in IF teensy.mode # "DISARMED" THEN {teensy.mode}
                  ELSE IF Fresh(teensy) THEN {"ready", "DISARMED"}
                  ELSE {"DISARMED"}
    /\ UNCHANGED <<spaceHeld, heartbeat, focused, connected, portVars>>
    /\ Render(writes, startSent)

\* disconnect(), by the button or by the end of readLoop(), up to its await.
Disconnect ==
    /\ connected /\ Room(1)
    /\ writes' = Append(writes, WriteOf("deadman_release", "close"))
    /\ UNCHANGED <<spaceHeld, heartbeat, focused, connected, startSent, shown,
                   portVars>>

\* The rest of disconnect(): the dead-man is let go without a message.
Close ==
    /\ spaceHeld' = FALSE /\ heartbeat' = FALSE /\ startSent' = FALSE
    /\ connected' = FALSE /\ shown' = "none"

\* What a start does when the hold it awaited was written, or was not.
Continue(then, written) ==
    LET goesOn == then = "start" /\ written /\ connected
        failed == then \in {"start", "started"} /\ ~(written /\ connected)
    IN  /\ writes' = IF goesOn THEN Append(Tail(writes), WriteOf("start", "started"))
                     ELSE Tail(writes)
        /\ \/ then = "close" /\ Close
           \/ /\ then # "close"
              /\ startSent' = (startSent /\ ~failed)
              /\ UNCHANGED <<spaceHeld, heartbeat, connected, shown>>

\* The oldest write reaches the Teensy, or is rejected: by a pulled cable, or
\* by the closing of the port.
Written ==
    /\ writes # <<>> /\ plugged
    /\ lines' = Append(lines, Head(writes).word)
    /\ Continue(Head(writes).then, TRUE)
    /\ UNCHANGED <<focused, plugged, teensy>>

Rejected ==
    /\ writes # <<>> /\ ~(plugged /\ connected)
    /\ Continue(Head(writes).then, FALSE)
    /\ UNCHANGED <<focused, portVars>>

-----------------------------------------------------------------------------
(* Around the page *)

\* connect(): the operator has gone through the port picker, which takes longer
\* than the dead-man of an earlier connection.
Connect ==
    /\ ~connected /\ plugged /\ writes = <<>> /\ lines = <<>>
    /\ teensy.age = DeadmanBeats /\ teensy.mode # "TRIAL"
    /\ connected' = TRUE /\ shown' = "none"
    /\ UNCHANGED <<spaceHeld, heartbeat, focused, startSent, writes, portVars>>

\* What the cable held is lost with it or has arrived.  The beginning of a line
\* stays in the Teensy's buffer, until the end of the next one.
Unplug ==
    /\ plugged /\ plugged' = FALSE
    /\ \/ lines' \in {lines, <<>>} /\ UNCHANGED teensy
       \/ /\ writes \o lines # <<>> /\ lines' = <<>>
          /\ teensy' = [teensy EXCEPT !.cut = TRUE]
    /\ UNCHANGED pageVars

Plug ==
    /\ ~plugged /\ ~connected /\ plugged' = TRUE
    /\ UNCHANGED <<pageVars, lines, teensy>>

\* The tab is closed, reloaded or crashes: no listener runs.
Vanish ==
    /\ connected
    /\ Close /\ writes' = <<>>
    /\ UNCHANGED <<focused, portVars>>

PageInit ==
    /\ spaceHeld = FALSE /\ heartbeat = FALSE /\ focused = TRUE
    /\ connected = FALSE /\ startSent = FALSE /\ shown = "none"
    /\ writes = <<>> /\ plugged = TRUE /\ lines = <<>>
    /\ teensy = [mode |-> "DISARMED", held |-> FALSE, age |-> DeadmanBeats,
                cut |-> FALSE]

PageNext ==
    \/ Execute \/ Age \/ TickFaults \/ TrialFaults
    \/ Press \/ KeyUp \/ LoseFocus \/ GainFocus \/ Blur \/ Beat
    \/ Click \/ DisarmClick \/ Telemetry \/ Disconnect \/ Written \/ Rejected
    \/ Connect \/ Unplug \/ Plug \/ Vanish

PageSpec == PageInit /\ [][PageNext]_browserVars

-----------------------------------------------------------------------------
(* Properties *)

PageTypeOK ==
    /\ {spaceHeld, heartbeat, focused, connected, startSent, plugged}
          \subseteq BOOLEAN
    /\ shown \in {"none", "ready", "DISARMED", "TRIAL", "FAULT"}
    /\ writes \in Seq([word : Words, then : Continuations])
    /\ lines \in Seq(Words)
    /\ Load <= MaxWrites
    /\ teensy \in [mode : {"DISARMED", "TRIAL", "FAULT"}, held : BOOLEAN,
                   age : 0 .. DeadmanBeats, cut : BOOLEAN]

\* The words on their way, the lines before the writes.
Way == lines \o [i \in DOMAIN writes |-> writes[i].word]

\* What is on its way leaves the Teensy without a hold and without a trial: a
\* release comes and no hold behind it, or there is neither and no hold comes.  After
\* a pulled cable the first word is lost on the rest of another.
EndsBy(t, way) ==
    LET Coming == (IF t.cut THEN 2 ELSE 1) .. Len(way)
    IN  \/ \E k \in Coming : /\ way[k] = "deadman_release"
                             /\ \A i \in k .. Len(way) : way[i] # "deadman_hold"
        \/ /\ ~Fresh(t) /\ t.mode # "TRIAL"
           /\ \A i \in Coming : way[i] # "deadman_hold"

\* app.js:381 and :407: while a page is connected and its Space is not held, what
\* is on its way leaves the Teensy without a hold and without a trial, whatever
\* start was still awaiting its hold message when Space was let go.
SpaceDecides == connected /\ plugged /\ ~spaceHeld => EndsBy(teensy, Way)

\* main.cpp:499: a trial whose page has vanished, has been cut off or is no longer
\* focused ends, unless the operator takes it up again.
UnattendedTrialEnds ==
    teensy.mode = "TRIAL" /\ ~SpaceControlIsActive ~>
        teensy.mode # "TRIAL" \/ SpaceControlIsActive
=============================================================================
