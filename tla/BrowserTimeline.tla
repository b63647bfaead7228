---------------------------- MODULE BrowserTimeline ----------------------------
(******************************************************************************)
(* The page the server embeds (src/web/app.js): one user, one timeline, and     *)
(* requests whose answers may come in any order and late.  A handler runs to its *)
(* first await in one step; the rest runs when the answer arrives, on whatever   *)
(* the page's state has become by then.  The server side of a request is one or  *)
(* two statements of KeysetWindow on the log of messages.                        *)
(* Left out: what is only shown (texts, counts, themes), the admin tables, and   *)
(* that an archived channel or a guest session hides the composer.               *)
(******************************************************************************)
EXTENDS KeysetWindow, SequencesExt

CONSTANTS
  Channels,
  Slots,      \* bound on the requests in flight
  PageSize,   \* HISTORY_PAGE_SIZE
  PollLimit,  \* the limit of a poll
  Overlap,    \* whether the user acts, and the poll timer fires, while a request is in flight
  History,    \* whether the user ever leaves the live view, to sort or to jump
  MaxLog,     \* bound on the messages
  MaxErrors   \* bound on the failed requests

ASSUME BrowserConstants ==
  /\ Slots \subseteq Nat /\ IsFiniteSet(Slots)
  /\ PageSize \in Nat \ {0} /\ PollLimit \in Nat \ {0}
  /\ Overlap \in BOOLEAN /\ History \in BOOLEAN
  /\ MaxLog \in Nat /\ MaxErrors \in Nat
ASSUME NullIsNoChannel == NULL \notin Channels \cup Nat

VARIABLES
  log,       \* the server's messages: per id the channel
  page,      \* the page's state object and its timeline
  directory, \* state.channels: the channels that have a button
  session,   \* state.sessionToken is set
  polling,   \* state.pollTimer is set
  waiting,   \* buttons that are disabled until their request is done
  requests,  \* per slot: a request in flight, or NULL
  errors     \* failed requests so far

vars == <<log, page, directory, session, polling, waiting, requests, errors>>

Ids == 1..MaxLog

Pages == [channel : Channels \cup {NULL}, order : Orders, followLatest : BOOLEAN,
          historyTargetId : Ids \cup {NULL}, lastId : Nat, oldestId : Nat, hasOlder : BOOLEAN,
          timeline : Seq(Ids),                      \* articles from top to bottom
          nav : {"none", "ready", "loading"}]       \* the load-older button

\* What a handler awaits: the answer it wants and what it does then.
Kinds == {"latest", "older", "jump", "poll", "post", "channels"}

\* then names the caller that goes on when loadLatestHistory or loadChannels returns.
\* auth says whether the page had a session when it asked.
Requests == [kind : Kinds, auth : BOOLEAN, channel : Channels \cup {NULL}, order : Orders,
             cursor : Nat \cup {NULL}, target : Ids \cup {NULL},
             then : {"nothing", "send", "login", "admin"},
             stage : {"sent", "paged", "answered"}, rows : SUBSET Ids, more : BOOLEAN]

TypeOK ==
  /\ log \in Seq(Channels) /\ Len(log) <= MaxLog
  /\ page \in Pages
  /\ directory \subseteq Channels
  /\ session \in BOOLEAN /\ polling \in BOOLEAN
  /\ waiting \subseteq {"send", "jump-go"}
  /\ requests \in [Slots -> Requests \cup {NULL}]
  \* message_window refuses a cursor that is not positive.
  /\ \A s \in Slots :
       requests[s] # NULL /\ requests[s].kind # "poll" => requests[s].cursor # 0
  /\ errors \in 0..MaxErrors

--------------------------------------------------------------------------------
(* The page's own functions, on its state p *)

\* Mutant of ResetHistory: the articles stay.
ResetHistoryKept(p) ==
  [p EXCEPT !.lastId = 0, !.oldestId = 0, !.hasOlder = FALSE, !.nav = "none"]

ResetHistory(p) ==
  [p EXCEPT !.lastId = 0, !.oldestId = 0, !.hasOlder = FALSE, !.timeline = <<>>, !.nav = "none"]

\* clearSession
ClearedPage ==
  [channel |-> NULL, order |-> "desc", followLatest |-> TRUE, historyTargetId |-> NULL,
   lastId |-> 0, oldestId |-> 0, hasOlder |-> FALSE, timeline |-> <<>>, nav |-> "none"]

Shown(p) == ToSet(p.timeline)

\* The rows of an answer in the order it lists them.
InOrder(rows, order) ==
  CHOOSE list \in SetToSeqs(rows) :
    \A i, j \in DOMAIN list : i < j => Precedes(order, list[i], list[j])

\* Mutant of AppendMessages: the cursors are taken from the answer, not from the extremes.
AppendMessagesOfAnswer(p, rows, order, placement) ==
  LET news == rows \ Shown(p)
      added == InOrder(news, order)
  IN IF news = {} THEN p
     ELSE [p EXCEPT !.lastId = Max(news), !.oldestId = Min(news),
                    !.timeline = IF placement = "prepend" THEN Reverse(added) \o @
                                 ELSE @ \o added]

\* appendMessage for each row of an answer: a row that is shown is skipped, the others go
\* one by one to the top or to the bottom.
AppendMessages(p, rows, order, placement) ==
  LET news == rows \ Shown(p)
      added == InOrder(news, order)
  IN IF news = {} THEN p
     ELSE [p EXCEPT !.lastId = Max(news \cup {@}),
                    !.oldestId = Min(news \cup IF @ = 0 THEN {} ELSE {@}),
                    !.timeline = IF placement = "prepend" THEN Reverse(added) \o @
                                 ELSE @ \o added]

\* state.hasOlder = has_more, then updateHistoryNav.
WithMore(p, more) ==
  [p EXCEPT !.hasOlder = more, !.nav = IF more /\ p.channel # NULL THEN "ready" ELSE "none"]

\* The page part of loadLatestHistory up to its request.
Latest(p) ==
  ResetHistory([p EXCEPT !.followLatest = (p.order = "desc"), !.historyTargetId = NULL])

\* The page part of selectChannel up to loadLatestHistory.
Selected(p, channel) == Latest([p EXCEPT !.channel = channel])

Request(kind, p, cursor, target, then) ==
  [kind |-> kind, auth |-> session, channel |-> p.channel, order |-> p.order, cursor |-> cursor,
   target |-> target, then |-> then, stage |-> "sent", rows |-> {}, more |-> FALSE]

LatestRequest(p, then) == Request("latest", p, NULL, NULL, then)

Init ==
  /\ log = <<>>
  /\ page = ClearedPage
  /\ directory = {}
  /\ session = FALSE /\ polling = FALSE
  /\ waiting = {}
  /\ requests = [s \in Slots |-> NULL]
  /\ errors = 0

--------------------------------------------------------------------------------
(* What the user and the poll timer start *)

PostsSent ==
  {s \in Slots : requests[s] # NULL /\ requests[s].kind = "post" /\ requests[s].stage = "sent"}

\* Room for one more message, the posts under way counted.
Room == Len(log) + Cardinality(PostsSent) < MaxLog

Idle == \A s \in Slots : requests[s] = NULL

\* The board is shown and, unless requests overlap, nothing is awaited.
MayAct == session /\ (Overlap \/ Idle)

Send(request) ==
  \E s \in Slots :
    /\ requests[s] = NULL /\ \A t \in Slots : requests[t] = NULL => s <= t
    /\ requests' = [requests EXCEPT ![s] = request]

\* loadLatestHistory: without a channel it returns at once.
LoadLatest(p) ==
  IF p.channel = NULL THEN page' = p /\ UNCHANGED requests
  ELSE page' = Latest(p) /\ Send(LatestRequest(p, "nothing"))

\* finishLogin: the answer to auth_totp or the guest login has come; loadChannels follows.
FinishLogin ==
  /\ ~session
  /\ ~\E s \in Slots : requests[s] # NULL /\ requests[s].then = "login"
  /\ Overlap \/ Idle
  /\ session' = TRUE
  /\ page' = [page EXCEPT !.channel = NULL]
  /\ Send([Request("channels", page', NULL, NULL, "login") EXCEPT !.auth = TRUE])
  /\ UNCHANGED <<log, directory, polling, waiting, errors>>

\* submitCreateChannel, submitEditChannel: the directory is loaded again.
ReloadChannels ==
  /\ MayAct
  /\ Send(Request("channels", page, NULL, NULL, "admin"))
  /\ UNCHANGED <<log, page, directory, session, polling, waiting, errors>>

\* disconnect(), by the button.
Disconnect ==
  /\ MayAct
  /\ session' = FALSE /\ polling' = FALSE
  /\ page' = ClearedPage /\ directory' = {}
  /\ UNCHANGED <<log, waiting, requests, errors>>

\* channelButton: click.
SelectChannel(channel) ==
  /\ MayAct
  /\ channel \in directory
  /\ page' = Selected(page, channel)
  /\ Send(LatestRequest(page', "nothing"))
  /\ UNCHANGED <<log, directory, session, polling, waiting, errors>>

\* createEphemeralChannel: the new name is shown, nothing is loaded.
NewChannel(channel) ==
  /\ MayAct
  /\ page' = ResetHistory([page EXCEPT !.channel = channel])
  /\ UNCHANGED <<log, directory, session, polling, waiting, requests, errors>>

\* message-order: change.
ChangeOrder ==
  /\ MayAct /\ History
  /\ LoadLatest([page EXCEPT !.order = IF @ = "desc" THEN "asc" ELSE "desc"])
  /\ UNCHANGED <<log, directory, session, polling, waiting, errors>>

\* latest: click; the button is shown outside the live view.
BackToLatest ==
  /\ MayAct
  /\ ~page.followLatest
  /\ LoadLatest([page EXCEPT !.order = "desc"])
  /\ UNCHANGED <<log, directory, session, polling, waiting, errors>>

\* loadOlderHistory
LoadOlder ==
  /\ MayAct
  /\ page.nav = "ready"
  /\ page.channel # NULL /\ page.hasOlder
  /\ LET cursor == IF page.order = "desc" THEN page.oldestId ELSE page.lastId IN
     /\ cursor # 0
     /\ Send(Request("older", page, cursor, NULL, "nothing"))
  /\ page' = [page EXCEPT !.nav = "loading"]
  /\ UNCHANGED <<log, directory, session, polling, waiting, errors>>

\* The request of jumpToMessage: a window that starts at the message.
JumpRequest(p, id) ==
  Request("jump", p, IF p.order = "desc" THEN id + 1 ELSE IF id > 1 THEN id - 1 ELSE NULL,
          id, "nothing")

\* jump-form: submit.  A message on the timeline is only scrolled to.
Jump(id) ==
  /\ MayAct /\ History
  /\ page.channel # NULL
  /\ "jump-go" \notin waiting
  /\ id \notin Shown(page)
  /\ waiting' = waiting \cup {"jump-go"}
  /\ Send(JumpRequest(page, id))
  /\ UNCHANGED <<log, page, directory, session, polling, errors>>

\* refresh: click.  A historical view is found again, any other is loaded from its start.
Refresh ==
  /\ MayAct
  /\ \/ /\ page.historyTargetId # NULL
        /\ page' = ResetHistory(page)
        /\ IF page.channel = NULL THEN UNCHANGED <<waiting, requests>>
           ELSE /\ waiting' = waiting \cup {"jump-go"}
                /\ Send(JumpRequest(page, page.historyTargetId))
     \/ /\ page.historyTargetId = NULL
        /\ LoadLatest(page)
        /\ UNCHANGED waiting
  /\ UNCHANGED <<log, directory, session, polling, errors>>

\* composer: submit.
Post ==
  /\ MayAct
  /\ page.channel # NULL
  /\ "send" \notin waiting
  /\ Room
  /\ waiting' = waiting \cup {"send"}
  /\ Send(Request("post", page, NULL, NULL, "nothing"))
  /\ UNCHANGED <<log, page, directory, session, polling, errors>>

\* The view polls: the guards of poll.
Live == session /\ page.channel # NULL /\ page.followLatest /\ page.order = "desc"

\* Mutant of Poll: the cursor is taken for inclusive.
PollFromNext ==
  /\ polling /\ Live /\ MayAct
  /\ Send(Request("poll", page, page.lastId + 1, NULL, "nothing"))
  /\ UNCHANGED <<log, page, directory, session, polling, waiting, errors>>

\* poll, when the timer fires.
Poll ==
  /\ polling /\ Live /\ MayAct
  /\ Send(Request("poll", page, page.lastId, NULL, "nothing"))
  /\ UNCHANGED <<log, page, directory, session, polling, waiting, errors>>

--------------------------------------------------------------------------------
(* The server's side of a request in slot s *)

ChannelIds(channel) == {i \in DOMAIN log : log[i] = channel}

\* message_window, messages, post_message: the first, or only, statement.
Serve(s) ==
  LET r == requests[s] IN
  /\ r # NULL /\ r.stage = "sent" /\ r.auth
  /\ \/ /\ r.kind \in {"latest", "older", "jump"}
        /\ LET rows == Page(ChannelIds(r.channel), r.order, r.cursor, PageSize) IN
           requests' = [requests EXCEPT ![s] =
                          [r EXCEPT !.rows = rows,
                                    !.stage = IF rows = {} THEN "answered" ELSE "paged"]]
        /\ UNCHANGED log
     \/ /\ r.kind = "poll"
        /\ requests' = [requests EXCEPT ![s] =
                          [r EXCEPT !.stage = "answered",
                                    !.rows = Page(ChannelIds(r.channel), "asc", r.cursor, PollLimit)]]
        /\ UNCHANGED log
     \/ /\ r.kind = "post"
        /\ log' = Append(log, r.channel)
        /\ requests' = [requests EXCEPT ![s].stage = "answered"]
     \/ /\ r.kind = "channels"
        /\ requests' = [requests EXCEPT ![s].stage = "answered"]
        /\ UNCHANGED log
  /\ UNCHANGED <<page, directory, session, polling, waiting, errors>>

\* message_window: the second statement.
ServeMore(s) ==
  LET r == requests[s] IN
  /\ r # NULL /\ r.stage = "paged"
  /\ requests' = [requests EXCEPT ![s] =
                    [r EXCEPT !.stage = "answered",
                              !.more = HasMore(ChannelIds(r.channel), r.order, r.rows)]]
  /\ UNCHANGED <<log, page, directory, session, polling, waiting, errors>>

\* Anyone else posts.
OtherPost(channel) ==
  /\ Room
  /\ log' = Append(log, channel)
  /\ UNCHANGED <<page, directory, session, polling, waiting, requests, errors>>

--------------------------------------------------------------------------------
(* What the page does when the answer to the request in slot s arrives *)

Done(s) == requests' = [requests EXCEPT ![s] = NULL]

\* Mutant of Returned: startPolling is forgotten.
ReturnedSilently(then) ==
  /\ waiting' = IF then = "send" THEN waiting \ {"send"} ELSE waiting
  /\ UNCHANGED polling

\* applyCurrentChannelActivity: a channel that has a new message has a button.
ListCurrent == directory' = directory \cup ({page.channel} \ {NULL})

\* The button of the caller works again, and after a login the poll timer runs.
Returned(then) ==
  /\ waiting' = IF then = "send" THEN waiting \ {"send"} ELSE waiting
  /\ polling' = (polling \/ then = "login")

\* loadLatestHistory, loadOlderHistory: the rows go to the bottom.
ShowWindow(s) ==
  LET r == requests[s] IN
  /\ r.kind \in {"latest", "older"}
  /\ page' = WithMore(AppendMessages(page, r.rows, r.order, "append"), r.more)
  /\ Done(s) /\ Returned(r.then)
  /\ UNCHANGED <<directory, session>>

\* jumpToMessage: found, the view becomes historical; else nothing is shown.
ShowJump(s) ==
  LET r == requests[s]
      target == [page EXCEPT !.followLatest = FALSE, !.historyTargetId = r.target] IN
  /\ r.kind = "jump"
  /\ page' = IF r.target \notin r.rows THEN page
             ELSE WithMore(AppendMessages(ResetHistory(target), r.rows, r.order, "append"), r.more)
  /\ waiting' = waiting \ {"jump-go"}
  /\ Done(s)
  /\ UNCHANGED <<directory, session, polling>>

\* poll: the rows go to the top one by one.
ShowPoll(s) ==
  LET r == requests[s] IN
  /\ r.kind = "poll"
  /\ page' = AppendMessages(page, r.rows, "asc", "prepend")
  /\ IF page' = page THEN UNCHANGED directory ELSE ListCurrent
  /\ Done(s)
  /\ UNCHANGED <<session, polling, waiting>>

\* postMessage: the view is loaded again, in the channel that is selected by now.
ShowPost(s) ==
  LET r == requests[s] IN
  /\ r.kind = "post"
  /\ IF page.channel = NULL
     THEN Done(s) /\ Returned("send") /\ UNCHANGED <<page, directory>>
     ELSE /\ page' = Latest(page) /\ ListCurrent
          /\ requests' = [requests EXCEPT ![s] = LatestRequest(page, "send")]
          /\ UNCHANGED <<waiting, polling>>
  /\ UNCHANGED session

\* loadChannels: the selected channel if it is listed, else a preferred one, is selected.
\* What the directory's first page lists depends on names, visibility and status.
ShowChannels(s) ==
  LET r == requests[s] IN
  /\ r.kind = "channels"
  /\ \E listed \in SUBSET Channels :
     /\ directory' = listed
     /\ \/ /\ listed = {}
           /\ page' = ResetHistory([page EXCEPT !.channel = NULL])
           /\ Done(s) /\ Returned(r.then)
        \/ \E channel \in listed :
           /\ page.channel \in listed => channel = page.channel
           /\ page' = Selected(page, channel)
           /\ requests' = [requests EXCEPT ![s] = LatestRequest(page', r.then)]
           /\ UNCHANGED <<waiting, polling>>
  /\ UNCHANGED session

Answer(s) ==
  /\ requests[s] # NULL /\ requests[s].stage = "answered"
  /\ ShowWindow(s) \/ ShowJump(s) \/ ShowPoll(s) \/ ShowPost(s) \/ ShowChannels(s)
  /\ UNCHANGED <<log, errors>>

\* The finally blocks: buttons that work again after a failure.  Not the load-older one.
Recovered(r) ==
  /\ waiting' = waiting \ ((IF r.kind = "jump" THEN {"jump-go"} ELSE {})
                             \cup (IF r.kind = "post" \/ r.then = "send" THEN {"send"} ELSE {}))

\* The network or the server fails the request.  A failed loadChannels ends a login.
Fail(s) ==
  LET r == requests[s]
      ends == r.kind = "channels" /\ r.then = "login" IN
  /\ r # NULL /\ errors < MaxErrors
  /\ errors' = errors + 1
  /\ page' = IF ends THEN ClearedPage ELSE page
  /\ directory' = IF ends THEN {} ELSE directory
  /\ session' = (session /\ ~ends)
  /\ polling' = IF ends THEN FALSE ELSE polling \/ r.then = "login"
  /\ Recovered(r) /\ Done(s)
  /\ UNCHANGED log

\* The server answers 401: the session expired, or the page had none when it asked.
Unauthorized(s) ==
  LET r == requests[s] IN
  /\ r # NULL /\ r.stage = "sent"
  /\ \/ ~r.auth /\ UNCHANGED errors
     \/ r.auth /\ errors < MaxErrors /\ errors' = errors + 1
  /\ page' = ClearedPage /\ directory' = {}
  /\ session' = FALSE /\ polling' = (r.then = "login")
  /\ Recovered(r) /\ Done(s)
  /\ UNCHANGED log

Act ==
  \/ FinishLogin \/ ReloadChannels \/ Disconnect \/ ChangeOrder \/ BackToLatest
  \/ LoadOlder \/ Refresh \/ Post
  \/ \E c \in Channels : SelectChannel(c) \/ NewChannel(c)
  \/ \E id \in Ids : Jump(id)

Next ==
  \/ Act
  \/ Poll
  \/ \E s \in Slots : Serve(s) \/ ServeMore(s) \/ Answer(s) \/ Fail(s) \/ Unauthorized(s)
  \/ \E c \in Channels : OtherPost(c)

Spec == Init /\ [][Next]_vars

\* The server serves what it is sent and the network delivers; the timer fires again and
\* again.  It is strongly fair because only the bound on Slots could hold it up.
Fairness ==
  /\ \A s \in Slots :
       /\ WF_vars(Serve(s)) /\ WF_vars(ServeMore(s)) /\ WF_vars(Answer(s))
       /\ WF_vars(requests[s] # NULL /\ ~requests[s].auth /\ Unauthorized(s))
  /\ SF_vars(Poll)

FairSpec == Spec /\ Fairness

--------------------------------------------------------------------------------
(* Properties *)

\* lastId and oldestId, from which the page polls and loads more, are the newest and the
\* oldest message on the timeline, and no message is on it twice, in whatever order answers
\* arrive and whoever reset the timeline meanwhile.
CursorsMatchTimeline ==
  /\ IsInjective(page.timeline)
  /\ page.lastId = Max(Shown(page) \cup {0})
  /\ page.oldestId = IF page.timeline = <<>> THEN 0 ELSE Min(Shown(page))

\* The timeline lists messages of the selected channel in the selected order, nothing is
\* missing between the oldest and the newest one shown, and a newest-first view that offers
\* no older messages has them all, although windows, polls and has_more were read at
\* different times.  Holds when requests do not overlap.  An answer that comes after the
\* user selected another channel breaks it, and so does the answer to a poll sent before
\* the order changed or while a window is loading (it asks for everything after 0).
TimelineExact ==
  page.timeline # <<>> =>
    /\ Shown(page) \subseteq ChannelIds(page.channel)
    /\ \A i, j \in DOMAIN page.timeline :
         i < j => Precedes(page.order, page.timeline[i], page.timeline[j])
    /\ \A id \in ChannelIds(page.channel) :
         page.oldestId <= id /\ id <= page.lastId => id \in Shown(page)
    /\ page.order = "desc" /\ ~page.hasOlder =>
         \A id \in ChannelIds(page.channel) : page.oldestId <= id

\* The user stops clicking; polls and everyone else go on.
UserStops == <>[][~Act]_vars

\* No later message of this channel has been posted.
NewestOf(channel, id) == id \in ChannelIds(channel) /\ \A i \in ChannelIds(channel) : i <= id

\* However requests overlap and are answered out of order: once the user stops in the live
\* view, the newest message of the selected channel comes up, or a newer one of it does,
\* and what can prevent it is a later message of another channel on the timeline and
\* nothing else.  A timeline that was reset is loaded or polled again, an answer lost to a
\* reset is asked for again, and no stale answer of the channel itself takes lastId past
\* a message that is not shown.
NewestShownUnlessForeign ==
  UserStops =>
    \A id \in Ids :
      LET newest == Live /\ NewestOf(page.channel, id)
          foreign == \E other \in Shown(page) : other > id /\ log[other] # page.channel
      IN newest ~> (id \in Shown(page) \/ ~newest \/ foreign)

\* Once the user stops in the live view, the newest message of the selected channel comes
\* up, or a newer one of it does ("Opening a channel in `Newest first` shows the live/latest
\* window and keeps live polling enabled", message-ordering.md).  Holds when requests do not
\* overlap: failed polls are repeated, a window that failed is made up for by polls.  When
\* they do it fails: a window or poll of the old channel that is answered after another was
\* selected is shown there and takes lastId past a message that is not, and poll asks for
\* later ones only.
NewestShown ==
  UserStops =>
    \A id \in Ids :
      LET newest == Live /\ NewestOf(page.channel, id)
      IN newest ~> (id \in Shown(page) \/ ~newest)
================================================================================
