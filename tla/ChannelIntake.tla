---------------------------- MODULE ChannelIntake ----------------------------
(***************************************************************************)
(* How messages become durable jobs: the poller that reads a mailbox by a  *)
(* cursor (app/channels/email_adapter.py), one in each application         *)
(* process, and the WhatsApp webhook (app/channels/whatsapp.py).  Both     *)
(* call ChannelJobService.enqueue, which inserts a row per event or finds  *)
(* the one that is there (app/channels/jobs.py).                           *)
(*                                                                         *)
(* A message's UID is its place in the mailbox; a mailbox that is made     *)
(* anew has another UIDVALIDITY and other UIDs.                            *)
(***************************************************************************)
EXTENDS Integers, Sequences, FiniteSets

CONSTANTS
    Mails,         \* messages that may arrive in the mailbox
    Unreadable,    \* those without a valid sender address
    Unnamed,       \* those without a Message-ID
    Pollers,
    Webhooks,      \* payloads of the provider
    Texts,         \* WhatsApp messages
    Acceptable,    \* those with an id, a sender and a text, for our number
    Payload,       \* the messages of a webhook, a message may be in several
    MaxValidity,   \* bound: times the mailbox is made
    MaxRefusals    \* bound: messages the mail server does not hand out

ASSUME IntakeAssumption ==
    /\ IsFiniteSet(Mails)
    /\ Unreadable \subseteq Mails /\ Unnamed \subseteq Mails
    /\ Acceptable \subseteq Texts
    /\ Payload \in [Webhooks -> SUBSET Texts]
    /\ MaxValidity \in Nat \ {0} /\ MaxRefusals \in Nat

VARIABLES
    mailbox,    \* the messages in it, oldest first
    validity,   \* its UIDVALIDITY
    arrived,
    cursor,     \* channel_cursors: the last UID and its UIDVALIDITY, or 0
    poller,
    webhook,
    queued,     \* events with a row in channel_inbound_jobs
    refused,    \* history: messages whose fetch the server refused
    torn        \* history: a commit left a cursor nobody wrote as a whole

mailVars == <<mailbox, validity, arrived>>
intakeVars == <<mailVars, cursor, poller, webhook, refused, torn>>

-----------------------------------------------------------------------------
Validities == 1..MaxValidity
Uids == 1..Cardinality(Mails)

\* external_event_id
Named(m) == [of |-> m, validity |-> 0, uid |-> 0]
MailEvents == {Named(m) : m \in Mails \ Unnamed}
                  \cup [of : Unnamed, validity : Validities, uid : Uids]
Deliverable == MailEvents \cup {Named(x) : x \in Texts}

Cursors == [uid : 0..Cardinality(Mails), validity : 0..MaxValidity]
Items == [uid : Uids, validity : Validities, mail : Mails]
NoCursor == [uid |-> 0, validity |-> 0]

IntakeTypeOK ==
    /\ mailbox \in Seq(Mails) /\ arrived \subseteq Mails /\ refused \subseteq Mails
    /\ validity \in Validities
    /\ cursor \in Cursors
    /\ torn \in BOOLEAN
    /\ poller \in [Pollers -> [pc : {"down", "idle", "fetch", "queue", "load", "commit"},
                               last : Cursors, read : Cursors, batch : SUBSET Items]]
    /\ webhook \in [Webhooks -> [pc : {"open", "queue", "accepted"}, left : SUBSET Texts]]
    /\ queued \subseteq Deliverable

PollerAt(point) == [pc |-> point, last |-> NoCursor, read |-> NoCursor, batch |-> {}]

IntakeInit ==
    /\ mailbox = << >> /\ arrived = {} /\ refused = {}
    /\ validity = 1
    /\ cursor = NoCursor /\ torn = FALSE
    /\ poller = [p \in Pollers |-> PollerAt("down")]
    /\ webhook = [h \in Webhooks |-> [pc |-> "open", left |-> {}]]
    /\ queued = {}

-----------------------------------------------------------------------------
(* The mailbox *)

Arrive(m) ==
    /\ m \notin arrived
    /\ arrived' = arrived \cup {m}
    /\ mailbox' = Append(mailbox, m)
    /\ UNCHANGED <<validity, cursor, poller, webhook, queued, refused, torn>>

\* Restored or moved, and some of its old messages are gone.
MakeAnew ==
    /\ validity < MaxValidity
    /\ validity' = validity + 1
    /\ \E n \in 0..Len(mailbox) : mailbox' = SubSeq(mailbox, n + 1, Len(mailbox))
    /\ UNCHANGED <<arrived, cursor, poller, webhook, queued, refused, torn>>

-----------------------------------------------------------------------------
(* The poller *)

Start(p) ==
    /\ poller[p].pc = "down"
    /\ poller' = [poller EXCEPT ![p] = PollerAt("idle")]
    /\ UNCHANGED <<mailVars, cursor, webhook, queued, refused, torn>>

ReadCursor(p) ==
    /\ poller[p].pc = "idle"
    /\ poller' = [poller EXCEPT ![p] = [PollerAt("fetch") EXCEPT !.last = cursor]]
    /\ UNCHANGED <<mailVars, cursor, webhook, queued, refused, torn>>

\* The UIDs of another validity say nothing about this one.
MutantSeen(last, v) == last.uid
Seen(last, v) == IF last.validity \notin {0, v} THEN 0 ELSE last.uid

Item(i) == [uid |-> i, validity |-> validity, mail |-> mailbox[i]]

\* "n:*" names the last message even when its UID is below n.
Found(last) ==
    {Item(i) : i \in {j \in DOMAIN mailbox : j > Seen(last, validity) \/ j = Len(mailbox)}}

\* What is left of the messages found when the connection breaks.
MutantUpTo(found, n) == {x \in found : x.uid # n}
UpTo(found, n) == {x \in found : x.uid < n}

FetchAfter(p) ==
    LET found == Found(poller[p].last)
    IN  /\ poller[p].pc = "fetch"
        /\ \E bad \in SUBSET {x.mail : x \in found} :
              /\ Cardinality(refused \cup bad) <= MaxRefusals
              /\ refused' = refused \cup bad
              /\ \E n \in Uids \cup {Cardinality(Mails) + 1} :
                    poller' = [poller EXCEPT
                        ![p].pc = "queue",
                        ![p].batch = {x \in UpTo(found, n) : x.mail \notin bad}]
        /\ UNCHANGED <<mailVars, cursor, webhook, queued, torn>>

\* The connection held to the end.
WholeFetch(p) == \A x \in Found(poller[p].last) : x \in poller'[p].batch \/ x.mail \in refused'

Oldest(p) == CHOOSE x \in poller[p].batch : \A y \in poller[p].batch : x.uid <= y.uid

EventOf(x) ==
    IF x.mail \in Unnamed THEN [of |-> x.mail, validity |-> x.validity, uid |-> x.uid]
    ELSE Named(x.mail)

Pass(p) == Oldest(p).uid <= Seen(poller[p].last, Oldest(p).validity)

\* A message that was seen is passed over; one that cannot be read ends the poll.
QueueMail(p) ==
    /\ poller[p].pc = "queue" /\ poller[p].batch # {}
    /\ IF Pass(p)
       THEN /\ poller' = [poller EXCEPT ![p].batch = @ \ {Oldest(p)}]
            /\ UNCHANGED queued
       ELSE /\ Oldest(p).mail \notin Unreadable
            /\ queued' = queued \cup {EventOf(Oldest(p))}
            /\ poller' = [poller EXCEPT ![p].pc = "load"]
    /\ UNCHANGED <<mailVars, cursor, webhook, refused, torn>>

\* The row of the cursor is read again, without a lock.
LoadCursor(p) ==
    /\ poller[p].pc = "load"
    /\ poller' = [poller EXCEPT ![p].pc = "commit", ![p].read = cursor]
    /\ UNCHANGED <<mailVars, cursor, webhook, queued, refused, torn>>

\* The UPDATE names the columns that differ from the row that was read.
Updated(read, seen) ==
    [uid |-> IF seen.uid = read.uid THEN cursor.uid ELSE seen.uid,
     validity |-> IF seen.validity = read.validity THEN cursor.validity ELSE seen.validity]

\* Wherever another poller has brought the cursor meanwhile. A source has one
\* cursor: the INSERT of a second fails, and with it the poll (PollFails).
CommitCursor(p) ==
    LET seen == [uid |-> Oldest(p).uid, validity |-> Oldest(p).validity]
    IN  /\ poller[p].pc = "commit"
        /\ poller[p].read = NoCursor => cursor = NoCursor
        /\ cursor' = Updated(poller[p].read, seen)
        /\ torn' = (torn \/ cursor' \notin {cursor, seen})
        /\ poller' = [poller EXCEPT ![p].pc = "queue", ![p].last = seen, ![p].read = NoCursor,
                                    ![p].batch = @ \ {Oldest(p)}]
        /\ UNCHANGED <<mailVars, webhook, queued, refused>>

\* The end of a poll, of one that met a message it cannot read, too.
EndPoll(p) ==
    /\ poller[p].pc = "queue"
    /\ poller[p].batch # {} => ~Pass(p) /\ Oldest(p).mail \in Unreadable
    /\ poller' = [poller EXCEPT ![p] = PollerAt("idle")]
    /\ UNCHANGED <<mailVars, cursor, webhook, queued, refused, torn>>

\* An exception ends the poll; when it cannot be recorded, or the list of
\* sources cannot be read, it ends the poller, as a crash does.
PollFails(p) ==
    /\ poller[p].pc # "down"
    /\ \E point \in {"idle", "down"} : poller' = [poller EXCEPT ![p] = PollerAt(point)]
    /\ UNCHANGED <<mailVars, cursor, webhook, queued, refused, torn>>

-----------------------------------------------------------------------------
(* The webhook: the provider repeats it until it is accepted *)

Receive(h) ==
    /\ webhook[h].pc = "open"
    /\ webhook' = [webhook EXCEPT ![h] = [pc |-> "queue",
                                          left |-> Payload[h] \cap Acceptable]]
    /\ UNCHANGED <<mailVars, cursor, poller, queued, refused, torn>>

QueueText(h) ==
    /\ webhook[h].pc = "queue"
    /\ \E x \in webhook[h].left :
          /\ queued' = queued \cup {Named(x)}
          /\ webhook' = [webhook EXCEPT ![h].left = @ \ {x}]
    /\ UNCHANGED <<mailVars, cursor, poller, refused, torn>>

Done(h) == webhook[h].left = {}

Accept(h) ==
    /\ webhook[h].pc = "queue"
    /\ Done(h)
    /\ webhook' = [webhook EXCEPT ![h] = [pc |-> "accepted", left |-> {}]]
    /\ UNCHANGED <<mailVars, cursor, poller, queued, refused, torn>>

WebhookFails(h) ==
    /\ webhook[h].pc = "queue"
    /\ webhook' = [webhook EXCEPT ![h] = [pc |-> "open", left |-> {}]]
    /\ UNCHANGED <<mailVars, cursor, poller, queued, refused, torn>>

-----------------------------------------------------------------------------
PollStep(p) ==
    Start(p) \/ ReadCursor(p) \/ FetchAfter(p) \/ QueueMail(p)
    \/ LoadCursor(p) \/ CommitCursor(p) \/ EndPoll(p)
HookStep(h) == Receive(h) \/ QueueText(h) \/ Accept(h)

IntakeNext ==
    \/ MakeAnew \/ \E m \in Mails : Arrive(m)
    \/ \E p \in Pollers : PollStep(p) \/ PollFails(p)
    \/ \E h \in Webhooks : HookStep(h) \/ WebhookFails(h)

IntakeSpec == IntakeInit /\ [][IntakeNext]_<<intakeVars, queued>>

-----------------------------------------------------------------------------
(* Properties *)

HasRow(m) == \E e \in queued : e.of = m

\* "Persists both UIDVALIDITY and the last processed UID": what the cursor has
\* passed has a job, unless the server did not hand it out.
PassedIsQueued ==
    cursor.validity = validity =>
        \A i \in DOMAIN mailbox :
            i <= cursor.uid => HasRow(mailbox[i]) \/ mailbox[i] \in refused

\* Whatever fails, reconnects or is made anew, and whichever poller wrote it,
\* the cursor never passes a message that has no job: a message is queued before
\* the cursor moves (EmailPollingService.poll_source). The one way to lose that is
\* a torn cursor, the UID of one poller beside the validity of another, and it
\* takes two pollers and a mailbox that was made anew.
NothingIsPassed ==
    /\ torn \/ PassedIsQueued
    /\ torn => validity > 1 /\ \E p, q \in Pollers : p # q

\* An accepted webhook is queued, all of it that can be: the provider does not
\* send it again (receive_whatsapp_webhook).
AcceptedIsQueued ==
    \A h \in Webhooks :
        webhook[h].pc = "accepted" => \A x \in Payload[h] \cap Acceptable : HasRow(x)
=============================================================================
