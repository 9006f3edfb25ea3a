-------------------------- MODULE ChatroomTranscript --------------------------
(***************************************************************************)
(* One chatroom: the pages of its members (use-learning-chatroom.ts), the  *)
(* POST that stores what a page shows (api/learning/chatroom/handler.ts),  *)
(* the teacher's moderation, and the row and archive they are kept in      *)
(* (learning-chatroom-transcript-store.ts and -postgres-store.ts).         *)
(*                                                                         *)
(* A page posts its whole visible transcript each time.  The row of the    *)
(* room is a window on the newest messages, compared and swapped by        *)
(* revision; the archive has a row per message.  A transaction on the row  *)
(* is one step, what a request reads before it is another.                 *)
(***************************************************************************)
EXTENDS Naturals, Sequences, FiniteSets, SequencesExt

CONSTANTS
  Tabs,          \* pages that show the room
  TeacherTabs,   \* those of teachers
  Posts,         \* POST requests; the message a request sends first bears its name
  Moderators,    \* requests that freeze or open the room
  MaxMessages,   \* length of the window
  MaxAttempts,   \* attempts of an append against a changed row
  MaxVerdicts    \* bound: messages hidden or restored

ASSUME TeachersAssumption == TeacherTabs \subseteq Tabs /\ Tabs # {}
ASSUME BoundsAssumption ==
  MaxMessages \in Nat \ {0} /\ MaxAttempts \in Nat \ {0} /\ MaxVerdicts \in Nat

VARIABLES
  course,        \* the record period of the course
  room,          \* the row: its revision, 0 while absent, freeze and window
  archive,       \* the stored messages in the order of their ids
  screen,        \* the messages each tab shows
  answer,        \* what a read of the room has brought and the tab not taken yet
  replayed,      \* the messages of the last answer it took
  post,          \* what each POST sends and the row it goes by
  at,            \* how far it is
  replied,       \* the POSTs whose tab waits no longer
  deed,          \* freezing and opening: the row it goes by and the attempt
  verdicts       \* how many messages were hidden or restored

vars == <<course, room, archive, screen, answer, replayed, post, at, replied, deed, verdicts>>
pages == <<screen, answer, replayed, replied>>
-----------------------------------------------------------------------------
Turn(p) == <<p>>                          \* the agents' answer in the round of p
Turns == {Turn(p) : p \in Posts}
Messages == Posts \cup Turns
\* Pages name their messages "local-...", the route names answers "agent-...".
ASSUME MessagesAssumption == Posts \cap Turns = {}
Statuses == {"none", "hidden", "visible"}
Entry(m) == [id |-> m, moderation |-> "none"]
Ids(entries) == {entries[i].id : i \in DOMAIN entries}
Entries == [id: Messages, moderation: Statuses]
Rooms == [rev: Nat, frozen: BOOLEAN, window: Seq(Entries)]

NoRoom == [rev |-> 0, frozen |-> FALSE, window |-> <<>>]
NoPost == [tab |-> CHOOSE t \in Tabs : TRUE, sent |-> "none", sends |-> <<>>,
           turns |-> <<>>, row |-> NoRoom, attempt |-> 0]
NoDeed == [at |-> "idle", freeze |-> FALSE, row |-> NoRoom, attempt |-> 0]

\* The elements at some places of a sequence, in the order they had.  The places
\* are counted by rank: a proof can follow that, and SelectSeq's recursion it cannot.
Picked(s, places) ==
  [n \in 1..Cardinality(places) |->
     s[CHOOSE i \in places : Cardinality({j \in places : j <= i}) = n]]
Without(s, gone) == Picked(s, {i \in DOMAIN s : s[i] \notin gone})

\* Mutant: a message that comes again replaces the one stored.
ArchivedAnew(entries, msgs) ==
  Picked(entries, {i \in DOMAIN entries : entries[i].id \notin ToSet(msgs)})
    \o [i \in DOMAIN msgs |-> Entry(msgs[i])]

\* A delayed resend neither changes a stored message nor moves it to the tail.
Archived(entries, msgs) ==
  LET new == Without(msgs, Ids(entries)) IN
  entries \o [i \in DOMAIN new |-> Entry(new[i])]

Latest(entries) ==
  SubSeq(entries, IF Len(entries) > MaxMessages THEN Len(entries) - MaxMessages + 1 ELSE 1,
         Len(entries))

Marked(entries, m, status) ==
  [i \in DOMAIN entries |->
     IF entries[i].id = m THEN [entries[i] EXCEPT !.moderation = status] ELSE entries[i]]

\* What a read of the room gives a page.
Visible(entries) ==
  Picked([i \in DOMAIN entries |-> entries[i].id],
         {i \in DOMAIN entries : entries[i].moderation # "hidden"})

Init ==
  /\ course = "open"
  /\ room = NoRoom
  /\ archive = <<>>
  /\ screen = [t \in Tabs |-> <<>>]
  /\ answer = [t \in Tabs |-> {}]
  /\ replayed = [t \in Tabs |-> {}]
  /\ post = [p \in Posts |-> NoPost]
  /\ at = [p \in Posts |-> "idle"]
  /\ replied = {}
  /\ deed = [d \in Moderators |-> NoDeed]
  /\ verdicts = 0
-----------------------------------------------------------------------------
(* The pages *)

\* Bound: pages are followed as long as a POST is left to send, and no answer to
\* a read is under way when the last one is sent.
Followed == \E p \in Posts : at[p] = "idle"
LastPost(p) == \A q \in Posts \ {p} : at[q] # "idle"

\* mergeRoomTranscript: the rows read, then what the page holds beyond them and
\* the previous read did not bring.
Merged(current, incoming, previous) ==
  LET read == {i \in DOMAIN current : current[i] \in ToSet(incoming)}
      tail == {i \in DOMAIN current : current[i] \notin previous /\ \A j \in read : j < i}
  IN IF incoming = <<>> THEN current ELSE incoming \o Picked(current, tail)

\* The five second read, one at a time; a store that cannot be read answers with
\* no messages.
ReadRoom(t) ==
  /\ Followed /\ answer[t] = {}
  /\ \E incoming \in {Visible(room.window), <<>>} : answer' = [answer EXCEPT ![t] = {incoming}]
  /\ UNCHANGED <<course, room, archive, screen, replayed, post, at, replied, deed, verdicts>>

\* The answer arrives, at a page that may have gone on since.
TakeAnswer(t) ==
  /\ Followed
  /\ \E incoming \in answer[t] :
       /\ screen' = [screen EXCEPT ![t] = Merged(@, incoming, replayed[t])]
       /\ replayed' = [replayed EXCEPT ![t] = ToSet(incoming)]
  /\ answer' = [answer EXCEPT ![t] = {}]
  /\ UNCHANGED <<course, room, archive, post, at, replied, deed, verdicts>>

AgentsPending(t) == \E p \in Posts \ replied : post[p].tab = t /\ post[p].turns # <<>>

MaySpeak(t, row) == t \in TeacherTabs \/ ~row.frozen

\* A POST carries what the page shows; agent rows are sent along but never taken.
\* It reads the room, and is refused at once if it may not speak.  In a round the
\* agents answer next; a round that fails goes on like a POST without one.
Request(p, t, sent, shown, turns) ==
  LET accepted == course = "open" /\ MaySpeak(t, room) IN
  /\ at[p] = "idle" /\ ~AgentsPending(t)
  /\ LastPost(p) => \A u \in Tabs : answer[u] = {}
  /\ post' = [post EXCEPT ![p] =
       IF accepted THEN [tab |-> t, sent |-> sent, turns |-> turns, row |-> room, attempt |-> 1,
                         sends |-> Without(shown, Turns)]
                   ELSE [NoPost EXCEPT !.tab = t, !.sent = sent]]
  /\ at' = [at EXCEPT ![p] = IF accepted THEN "read"
                             ELSE IF course = "open" THEN "frozen" ELSE "refused"]

Send(p, t) ==
  /\ screen' = [screen EXCEPT ![t] = Append(@, p)]
  /\ \E turns \in {<<>>, <<Turn(p)>>} : Request(p, t, p, screen'[t], turns)
  /\ UNCHANGED <<course, room, archive, answer, replayed, replied, deed, verdicts>>

\* Tap-to-retry on a message of one's own.
Resend(p, t, m) ==
  /\ m \in ToSet(screen[t]) /\ m \in Posts \ {p} /\ post[m].tab = t
  /\ Request(p, t, m, screen[t], <<>>)
  /\ UNCHANGED <<course, room, archive, pages, deed, verdicts>>

\* The answer reaches the page, which may be before the message is stored: the
\* route gives up waiting for the store but not the store itself.  Without a
\* round only a refusal for a frozen room changes the page.
Reply(p) ==
  /\ Followed /\ p \notin replied
  /\ at[p] = "frozen" \/ post[p].turns # <<>>
  /\ replied' = replied \cup {p}
  /\ screen' = [screen EXCEPT ![post[p].tab] =
       CASE at[p] = "frozen"  -> Without(@, {post[p].sent})
         [] at[p] = "refused" -> @
         [] OTHER -> @ \o Without(post[p].turns, ToSet(screen[post[p].tab]))]
  /\ UNCHANGED <<course, room, archive, answer, replayed, post, at, deed, verdicts>>

LoseReply(p) ==
  /\ Followed /\ p \notin replied /\ post[p].turns # <<>>
  /\ replied' = replied \cup {p}
  /\ UNCHANGED <<course, room, archive, screen, answer, replayed, post, at, deed, verdicts>>
-----------------------------------------------------------------------------
(* The POST *)

Storing(p) == at[p] = "read"

Ends(p, how) ==
  /\ at' = [at EXCEPT ![p] = how]
  /\ post' = [post EXCEPT ![p].row = NoRoom, ![p].attempt = 0]

\* The messages the window it goes by has not got.
Fresh(p) ==
  Without(post[p].sends \o post[p].turns, Ids(post[p].row.window))

\* The transaction of an append.
Store(p) ==
  /\ Storing(p) /\ course = "open" /\ room.rev = post[p].row.rev
  /\ archive' = Archived(archive, Fresh(p))
  /\ room' = [rev |-> room.rev + 1, frozen |-> post[p].row.frozen, window |-> Latest(archive')]
  /\ Ends(p, "done")
  /\ UNCHANGED <<course, pages, deed, verdicts>>

StoreClosed(p) ==
  /\ Storing(p) /\ course # "open"
  /\ Ends(p, "refused")
  /\ UNCHANGED <<course, room, archive, pages, deed, verdicts>>

Overtaken(p) == Storing(p) /\ course = "open" /\ room.rev # post[p].row.rev

\* Mutant: the next attempt trusts the check of the first.
RetryUnchecked(p) ==
  /\ Overtaken(p) /\ post[p].attempt < MaxAttempts
  /\ post' = [post EXCEPT ![p].row = room, ![p].attempt = @ + 1]
  /\ UNCHANGED <<course, room, archive, pages, at, deed, verdicts>>

\* The next attempt reads the room again, and whether it is frozen.
Retry(p) ==
  /\ Overtaken(p) /\ post[p].attempt < MaxAttempts
  /\ IF MaySpeak(post[p].tab, room)
     THEN /\ post' = [post EXCEPT ![p].row = room, ![p].attempt = @ + 1]
          /\ UNCHANGED at
     ELSE Ends(p, "frozen")
  /\ UNCHANGED <<course, room, archive, pages, deed, verdicts>>

\* Mutant: the last refusal is taken for success.
GiveUpSilently(p) ==
  /\ Overtaken(p)
  /\ Ends(p, "done")
  /\ UNCHANGED <<course, room, archive, pages, deed, verdicts>>

\* The attempts or the time of the request are used up.
GiveUp(p) ==
  /\ Overtaken(p)
  /\ Ends(p, "refused")
  /\ UNCHANGED <<course, room, archive, pages, deed, verdicts>>
-----------------------------------------------------------------------------
(* Moderation *)

\* Mutant: only the archive is changed.
KeptWindow(m, status) == room.window

JudgedWindow(m, status) == Marked(room.window, m, status)

\* moderateArchive changes a message in the archive and in the window.
Judge(m, status) ==
  /\ verdicts < MaxVerdicts /\ verdicts' = verdicts + 1
  /\ room.rev > 0 /\ m \in Ids(archive)
  /\ archive' = Marked(archive, m, status)
  /\ room' = [room EXCEPT !.rev = @ + 1, !.window = JudgedWindow(m, status)]
  /\ UNCHANGED <<course, screen, answer, replayed, post, at, replied, deed>>

\* A teacher's page drops what it has hidden.
DropHidden(t, m) ==
  /\ Followed /\ m \in ToSet(screen[t])
  /\ \E e \in ToSet(archive) : e.id = m /\ e.moderation = "hidden"
  /\ screen' = [screen EXCEPT ![t] = Without(@, {m})]
  /\ UNCHANGED <<course, room, archive, answer, replayed, post, at, replied, deed, verdicts>>

\* Freezing and opening read the room, which may be absent, and replace it.
ReadToModerate(d, freeze) ==
  /\ deed[d].at = "idle"
  /\ deed' = [deed EXCEPT ![d] = [at |-> "read", freeze |-> freeze, row |-> room, attempt |-> 1]]
  /\ UNCHANGED <<course, room, archive, pages, post, at, verdicts>>

Judged(entries, written) ==
  [i \in DOMAIN entries |->
     IF \E j \in DOMAIN written : written[j].id = entries[i].id /\ written[j].moderation # "none"
     THEN CHOOSE e \in ToSet(written) : e.id = entries[i].id
     ELSE entries[i]]

Moderate(d) ==
  /\ deed[d].at = "read" /\ room.rev = deed[d].row.rev
  /\ archive' = Judged(archive, deed[d].row.window)
  /\ room' = [rev |-> room.rev + 1, frozen |-> deed[d].freeze, window |-> Latest(archive')]
  /\ deed' = [deed EXCEPT ![d] = [NoDeed EXCEPT !.at = "done"]]
  /\ UNCHANGED <<course, pages, post, at, verdicts>>

ModerateAgain(d) ==
  /\ deed[d].at = "read" /\ room.rev # deed[d].row.rev
  /\ IF deed[d].attempt < 2
     THEN deed' = [deed EXCEPT ![d].row = room, ![d].attempt = @ + 1]
     ELSE deed' = [deed EXCEPT ![d] = [NoDeed EXCEPT !.at = "refused"]]
  /\ UNCHANGED <<course, room, archive, pages, post, at, verdicts>>
-----------------------------------------------------------------------------
\* The owner of the course ends its record period: appends are over, moderation
\* goes on.
CloseRecords ==
  /\ course = "open" /\ course' = "closed"
  /\ UNCHANGED <<room, archive, pages, post, at, deed, verdicts>>

Next ==
  \/ \E t \in Tabs : ReadRoom(t) \/ TakeAnswer(t)
  \/ \E p \in Posts, t \in Tabs : Send(p, t)
  \/ \E p \in Posts, t \in Tabs, m \in Posts : Resend(p, t, m)
  \/ \E p \in Posts : Reply(p)
  \/ \E p \in Posts : LoseReply(p)
  \/ \E p \in Posts : Store(p)
  \/ \E p \in Posts : StoreClosed(p)
  \/ \E p \in Posts : Retry(p)
  \/ \E p \in Posts : GiveUp(p)
  \/ \E m \in Messages, status \in {"hidden", "visible"} : Judge(m, status)
  \/ \E t \in TeacherTabs, m \in Messages : DropHidden(t, m)
  \/ \E d \in Moderators, freeze \in BOOLEAN : ReadToModerate(d, freeze)
  \/ \E d \in Moderators : Moderate(d)
  \/ \E d \in Moderators : ModerateAgain(d)
  \/ CloseRecords

Spec == Init /\ [][Next]_vars
-----------------------------------------------------------------------------
(* Properties *)

TypeOK ==
  /\ course \in {"open", "closed"}
  /\ room \in Rooms
  /\ archive \in Seq(Entries)
  /\ screen \in [Tabs -> Seq(Messages)]
  /\ answer \in [Tabs -> SUBSET Seq(Messages)]
  /\ replayed \in [Tabs -> SUBSET Messages]
  /\ post \in [Posts -> [tab: Tabs, sent: Posts \cup {"none"}, sends: Seq(Posts),
                        turns: Seq(Turns), row: Rooms, attempt: 0..MaxAttempts]]
  /\ at \in [Posts -> {"idle", "read", "done", "frozen", "refused"}]
  /\ replied \subseteq Posts
  /\ deed \in [Moderators -> [at: {"idle", "read", "done", "refused"}, freeze: BOOLEAN,
                             row: Rooms, attempt: 0..2]]
  /\ verdicts \in 0..MaxVerdicts

\* What the room replays is the end of the archive, each message there once and
\* moderated as the archive has it, whoever posted which old transcript again.
WindowIsArchiveTail ==
  /\ \A i, j \in DOMAIN archive : archive[i].id = archive[j].id => i = j
  /\ room.window = Latest(archive)

\* A POST that is answered as persisted has all it sent, and the agents' answer
\* in the archive, however often it was overtaken.
PersistedIsKept ==
  \A p \in Posts : at[p] = "done" =>
    ToSet(post[p].sends) \cup ToSet(post[p].turns) \subseteq Ids(archive)

\* A stored message keeps its place, and only the teacher's
\* verdict on it shows or hides it: neither resends nor a freeze prepared from
\* an older room do.
StoredStaysAsJudged ==
  [][\A i \in DOMAIN archive :
       /\ i \in DOMAIN archive' /\ archive'[i].id = archive[i].id
       /\ archive'[i].moderation # archive[i].moderation => verdicts' # verdicts]_vars

\* Once the teacher has frozen the room, or the owner has closed the records, no
\* request of a student adds to it, those that had read it before included.
FrozenStaysSilent ==
  [][\A i \in DOMAIN archive' \ DOMAIN archive :
       /\ course = "open"
       /\ room.frozen => \E p \in Posts : /\ at[p] # "done" /\ at'[p] = "done"
                                          /\ post[p].tab \in TeacherTabs]_vars

\* "Every other member loses it on their next read": what an earlier read brought
\* and is hidden leaves the page with a read that was made since.
HiddenLeavesScreen ==
  [][\A t \in Tabs : TakeAnswer(t) /\ answer[t] = {Visible(room.window)} =>
       \A e \in ToSet(room.window) :
         e.moderation = "hidden" /\ e.id \in replayed[t] => e.id \notin ToSet(screen'[t])]_vars
=============================================================================
