---------------------------- MODULE ProgressFeed ----------------------------
(* Live progress of one document: the worker and the cancel endpoint       *)
(* commit a status and publish it, the WebSocket endpoint relays what it   *)
(* is sent while subscribed, and the page's hook shows what the socket     *)
(* delivers, or polls the status when the socket is down or silent.        *)
(* Publication loses events, a socket may stop delivering without closing, *)
(* and answers to polls come back late and out of order.                   *)
EXTENDS Naturals, Sequences, FiniteSets

CONSTANTS
  Steps,        \* status updates of the run before its last one
  MaxInFlight,  \* bound: unanswered polls
  MaxErrors     \* bound: polls that fail with a network or server error

ASSUME BoundsAssumption == Steps \in Nat /\ MaxInFlight \in Nat \ {0} /\ MaxErrors \in Nat

VARIABLES
  db,        \* the job's status and how many updates the run has committed
  stop,      \* a cancellation was requested
  over,      \* the run has ended and writes no more
  outbox,    \* the event each writer has committed and not yet published
  gone,      \* the document was deleted: the status endpoint answers 404
  relay,     \* the endpoint's subscription: none, live, closed
  frames,    \* events sent to the client and not yet delivered
  socket,    \* the client's socket: open, closed
  closing,   \* its close event has not been handled yet
  mounted,   \* the hook's effect is live (not cancelled)
  finished,  \* the hook saw the end
  poll,      \* the polling interval is set
  silence,   \* the silence timer is armed
  shown,     \* the event the page displays
  asked,     \* polls under way, with the status each was answered with
  errors,    \* failed polls so far
  endBy      \* history: who told the hook of the end: none, socket, poll

serverVars == <<db, stop, over, outbox, gone, relay>>
socketVars == <<socket, closing>>
hookVars == <<mounted, finished, poll, silence, shown, endBy>>
feedVars == <<serverVars, frames, socketVars, hookVars, asked, errors>>

Writer == {"worker", "api"}
Event == [n : 0 .. Steps, status : {"active", "COMPLETED", "CANCELLED"}]
NoEvent == [n |-> 0, status |-> "none"]

FeedTypeOK ==
  /\ db \in Event
  /\ outbox \in [Writer -> Event \cup {NoEvent}]
  /\ stop \in BOOLEAN /\ over \in BOOLEAN /\ closing \in BOOLEAN
  /\ gone \in BOOLEAN /\ mounted \in BOOLEAN /\ finished \in BOOLEAN
  /\ poll \in BOOLEAN /\ silence \in BOOLEAN
  /\ relay \in {"none", "live", "closed"} /\ socket \in {"open", "closed"}
  /\ frames \in Seq(Event)
  /\ shown \in Event \cup {NoEvent}
  /\ asked \subseteq (1 .. MaxInFlight) \X Event
  /\ errors \in 0 .. MaxErrors /\ endBy \in {"none", "socket", "poll"}

(* The page is opened while the run is at work: the socket connects and    *)
(* the silence timer is armed.                                             *)
FeedInit ==
  /\ db = [n |-> 0, status |-> "active"]
  /\ stop = FALSE /\ over = FALSE /\ outbox = [w \in Writer |-> NoEvent]
  /\ gone = FALSE /\ relay = "none" /\ frames = <<>> /\ socket = "open" /\ closing = FALSE
  /\ mounted = TRUE /\ finished = FALSE /\ poll = FALSE /\ silence = TRUE
  /\ shown = NoEvent /\ asked = {} /\ errors = 0 /\ endBy = "none"

(* Mutants: plausible bugs that the runs' properties must detect           *)
TerminalWithoutCancelled(e) == e.status = "COMPLETED"
MayPollUnguarded == ~poll
CloseForgotten == UNCHANGED <<socket, closing>>
TimerNotArmed == silence' = FALSE

(* TERMINAL_STATUSES; FAILED is treated as COMPLETED is.                   *)
Terminal(e) == e.status \in {"COMPLETED", "CANCELLED"}

-----------------------------------------------------------------------------
(* Server                                                                  *)

Updated(s) == [n |-> IF s = "active" THEN db.n + 1 ELSE db.n, status |-> s]

Commit(w, s) ==
  /\ outbox[w] = NoEvent
  /\ db' = Updated(s)
  /\ outbox' = [outbox EXCEPT ![w] = db']
  /\ UNCHANGED <<gone, relay, frames, socketVars, hookVars, asked, errors>>

(* The run's updates do not look at what the endpoint wrote: a CANCELLED   *)
(* status may be followed by another update, or by COMPLETED.              *)
RunUpdates == ~over /\ db.n < Steps /\ Commit("worker", "active") /\ UNCHANGED <<stop, over>>
RunCompletes ==
  ~over /\ db.n = Steps /\ Commit("worker", "COMPLETED") /\ over' = TRUE /\ UNCHANGED stop
RunStops == ~over /\ stop /\ Commit("worker", "CANCELLED") /\ over' = TRUE /\ UNCHANGED stop

CancelRequested ==
  ~stop /\ db.status = "active" /\ Commit("api", "CANCELLED") /\ stop' = TRUE /\ UNCHANGED over

DocumentDeleted ==
  /\ ~gone /\ gone' = TRUE
  /\ UNCHANGED <<db, stop, over, outbox, relay, frames, socketVars, hookVars, asked, errors>>

Subscribe ==
  /\ relay = "none" /\ socket = "open" /\ relay' = "live"
  /\ UNCHANGED <<db, stop, over, outbox, gone, frames, socketVars, hookVars, asked, errors>>

(* The endpoint's loop ends after COMPLETED or FAILED, not CANCELLED.      *)
RelayEnds(e) == e.status = "COMPLETED"

(* Without a subscriber, or with a failing Redis, the event is lost.  A    *)
(* relay whose client has gone notices when it next sends.                 *)
Publish(w) ==
  /\ outbox[w] # NoEvent
  /\ outbox' = [outbox EXCEPT ![w] = NoEvent]
  /\ \/ UNCHANGED <<frames, relay>>
     \/ /\ relay = "live" /\ socket = "open"
        /\ frames' = Append(frames, outbox[w])
        /\ relay' = IF RelayEnds(outbox[w]) THEN "closed" ELSE relay
     \/ relay = "live" /\ socket = "closed" /\ relay' = "closed" /\ UNCHANGED frames
  /\ UNCHANGED <<db, stop, over, gone, socketVars, hookVars, asked, errors>>

-----------------------------------------------------------------------------
(* The hook                                                                *)

(* startPolling: once, and never after the end or the cleanup.             *)
MayPoll == ~(poll \/ ~mounted \/ finished)
StartPolling == poll' = (poll \/ MayPoll)
StopPolling == poll' = FALSE
ArmSilence == silence' = (mounted /\ ~finished)
CloseSocket == socket' = "closed" /\ closing' = (closing \/ socket = "open")
End(by) == finished' = TRUE /\ endBy' = by

FrameArrives ==
  /\ frames # <<>> /\ socket = "open" /\ mounted
  /\ frames' = Tail(frames)
  /\ shown' = Head(frames)
  /\ StopPolling
  /\ IF Terminal(Head(frames))
       THEN End("socket") /\ silence' = FALSE /\ CloseSocket
       ELSE ArmSilence /\ UNCHANGED <<finished, endBy, socketVars>>
  /\ UNCHANGED <<serverVars, mounted, asked, errors>>

SilenceFires ==
  /\ silence /\ silence' = FALSE
  /\ StartPolling
  /\ UNCHANGED <<serverVars, frames, socketVars, mounted, finished, shown, endBy, asked, errors>>

(* The connection breaks, or the endpoint closes it: onerror falls back to *)
(* polling.                                                                *)
SocketDrops ==
  /\ socket = "open" /\ CloseSocket
  /\ StartPolling
  /\ UNCHANGED <<serverVars, frames, mounted, finished, silence, shown, endBy, asked, errors>>

(* The close event comes later, after the hook's own close as well: after  *)
(* the end, or after the page was left.                                    *)
CloseEvent ==
  /\ closing /\ closing' = FALSE
  /\ StartPolling
  /\ UNCHANGED <<serverVars, frames, socket, mounted, finished, silence, shown, endBy, asked, errors>>

(* The interval sends a request whether or not the last one was answered.  *)
PollTick ==
  /\ poll
  /\ \E i \in 1 .. MaxInFlight :
       /\ \A a \in asked : a[1] # i
       /\ asked' = asked \cup {<<i, db>>}
  /\ UNCHANGED <<serverVars, frames, socketVars, hookVars, errors>>

(* Only the cleanup is looked at when an answer arrives, not the end.      *)
PollAnswered(a) ==
  /\ a \in asked /\ ~gone
  /\ asked' = asked \ {a}
  /\ IF ~mounted THEN UNCHANGED hookVars
     ELSE /\ shown' = a[2]
          /\ IF Terminal(a[2]) THEN End("poll") /\ StopPolling /\ silence' = FALSE
             ELSE UNCHANGED <<finished, endBy, poll, silence>>
          /\ UNCHANGED mounted
  /\ UNCHANGED <<serverVars, frames, socketVars, errors>>

PollRefused(a) ==
  /\ a \in asked /\ gone
  /\ asked' = asked \ {a}
  /\ End("poll") /\ StopPolling
  /\ UNCHANGED <<serverVars, frames, socketVars, mounted, silence, shown, errors>>

PollFails(a) ==
  /\ a \in asked /\ errors < MaxErrors
  /\ asked' = asked \ {a}
  /\ errors' = errors + 1
  /\ UNCHANGED <<serverVars, frames, socketVars, hookVars>>

Unmount ==
  /\ mounted /\ mounted' = FALSE
  /\ silence' = FALSE /\ StopPolling /\ CloseSocket
  /\ UNCHANGED <<serverVars, frames, finished, shown, endBy, asked, errors>>

Run == RunUpdates \/ RunCompletes \/ RunStops
Publication == \E w \in Writer : Publish(w)
Answer == \E a \in asked : PollAnswered(a) \/ PollRefused(a)

FeedNext ==
  \/ Run \/ CancelRequested \/ DocumentDeleted \/ Subscribe \/ Publication
  \/ FrameArrives \/ SilenceFires \/ SocketDrops \/ CloseEvent
  \/ PollTick \/ Answer \/ (\E a \in asked : PollFails(a)) \/ Unmount

FeedSpec == FeedInit /\ [][FeedNext]_feedVars

(* The run goes on, timers fire and polls are answered.  Nothing is        *)
(* assumed of the socket.                                                  *)
FairSpec ==
  /\ FeedSpec /\ WF_feedVars(Run) /\ WF_feedVars(Publication)
  /\ WF_feedVars(SilenceFires) /\ WF_feedVars(CloseEvent) /\ WF_feedVars(PollTick)
  /\ \A i \in 1 .. MaxInFlight : WF_feedVars(\E a \in asked : a[1] = i /\ (PollAnswered(a) \/ PollRefused(a)))

-----------------------------------------------------------------------------
(* Once the hook has seen the end, or its page is left, no timer polls any *)
(* more, whatever close events, frames and answers still arrive.           *)
PollingStops == finished \/ ~mounted => ~poll

(* The hook is never deaf: while it lives and has not seen the end, it     *)
(* polls, or a timer or the socket's close event will make it poll.        *)
NeverDeaf ==
  mounted /\ ~finished => poll \/ silence \/ closing

(* An end that the socket delivered leaves the display only by the answer  *)
(* to a poll that was sent before: later frames, a status the run wrote    *)
(* after the cancellation included, never replace it.                      *)
EndLeftByLateAnswerOnly ==
  [][endBy = "socket" /\ shown' # shown =>
       \E a \in asked : a \notin asked' /\ shown' = a[2]]_feedVars

(* When the run is over the page shows its end, with a socket that is      *)
(* refused, broken or silent, events that are lost and polls that fail,    *)
(* unless the page is left or the document deleted.                        *)
EndIsShown == over ~> finished \/ ~mounted \/ gone
=============================================================================
