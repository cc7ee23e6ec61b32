--------------------------- MODULE OperatorAlerts ---------------------------
(***************************************************************************)
(* post_ntfy_alert (alerts.py): publish an alert unless the same one was   *)
(* sent within its cooldown.  What was sent is kept in one JSON file that  *)
(* every process reads whole, changes and writes whole: a post loads it,   *)
(* decides, sends with retries, and writes back the copy it loaded plus    *)
(* its own stamp.  Posts of different processes overlap freely, and a      *)
(* process may die inside one.                                             *)
(*                                                                         *)
(* A forced alert has no cooldown in this repository, and one without a    *)
(* key is never held back nor stamped: both are the case of cooldown 0,    *)
(* which neither reads nor writes a stamp.  A process told not to notify   *)
(* (RENQUANT_NO_NOTIFY) posts nothing and is no poster.                    *)
(***************************************************************************)
EXTENDS Integers, Sequences, FiniteSets

CONSTANTS
    Posters,    \* the processes that post
    Taxonomies, \* event.taxonomy
    Keys,       \* event.key, what the alert is about
    MaxCooldown,
    Attempts,   \* urlopen attempts of _send_ntfy and its curl fallback
    MaxTime     \* bound on the clock

ASSUME AlertsAssumption ==
    /\ MaxCooldown \in Nat
    /\ Attempts \in Nat \ {0}
    /\ MaxTime \in Nat

VARIABLES
    alert_file, \* the stamps of alert_state.json
    post,       \* per process, its call of post_ntfy_alert
    sent,       \* history: the alerts that were sent, in the order their posts ended
    clock

avars == <<alert_file, post, sent, clock>>

Time == 0..MaxTime

AlertEvent == [taxonomy: Taxonomies, key: Keys, cooldown: 0..MaxCooldown]

Stamp == [taxonomy: Taxonomies, key: Keys, sent_at: Time]

\* _event_id: the taxonomy and the key, not the cooldown.
StampOf(event, at) == [taxonomy |-> event.taxonomy, key |-> event.key, sent_at |-> at]

Names(stamp, event) == stamp.taxonomy = event.taxonomy /\ stamp.key = event.key

NoPost == [at |-> "out"]

\* alone: no other post was in progress at any moment of this one.
Post == [at: {"load", "send", "record"}, event: AlertEvent, began: Time,
         state: SUBSET Stamp, tries: 0..Attempts, ok: BOOLEAN, alone: BOOLEAN]

InPost(p) == post[p] # NoPost

-----------------------------------------------------------------------------
\* post_ntfy_alert is entered, the clock read and the file loaded (a missing or broken
\* file is an empty one).  An overlap spoils both posts.
BeginPost(p, event) ==
    post' = [q \in Posters |->
               IF q = p
               THEN [at |-> "load", event |-> event, began |-> clock,
                     state |-> alert_file, tries |-> Attempts, ok |-> FALSE,
                     alone |-> \A r \in Posters \ {p} : ~InPost(r)]
               ELSE IF InPost(q) THEN [post[q] EXCEPT !.alone = FALSE]
               ELSE post[q]]

\* Faulty: the age of the stamp is compared the wrong way round.
SuppressedAfter(c) ==
    /\ c.event.cooldown > 0
    /\ \E s \in c.state : /\ Names(s, c.event)
                          /\ c.began - s.sent_at >= c.event.cooldown

\* _should_suppress.
Suppressed(c) ==
    /\ c.event.cooldown > 0
    /\ \E s \in c.state : /\ Names(s, c.event)
                          /\ c.began - s.sent_at < c.event.cooldown

\* The same alert went out within its cooldown: nothing is sent.
Suppress(p) ==
    /\ post[p].at = "load"
    /\ Suppressed(post[p])
    /\ post' = [post EXCEPT ![p] = NoPost]
    /\ UNCHANGED <<alert_file, sent, clock>>

BeginSend(p) ==
    /\ post[p].at = "load"
    /\ ~Suppressed(post[p])
    /\ post' = [post EXCEPT ![p].at = "send"]
    /\ UNCHANGED <<alert_file, sent, clock>>

\* Faulty: a failed attempt is always followed by another.
AttemptsForever(p) ==
    /\ post[p].at = "send"
    /\ post' = [post EXCEPT ![p].tries = @ - 1]
    /\ UNCHANGED <<alert_file, sent, clock>>

\* One attempt raises; after the last one the alert has failed.
AttemptFails(p) ==
    /\ post[p].at = "send"
    /\ post' = [post EXCEPT ![p].tries = @ - 1,
                            ![p].at = IF post[p].tries = 1 THEN "record" ELSE "send"]
    /\ UNCHANGED <<alert_file, sent, clock>>

AttemptSucceeds(p) ==
    /\ post[p].at = "send"
    /\ post' = [post EXCEPT ![p].ok = TRUE, ![p].at = "record"]
    /\ UNCHANGED <<alert_file, sent, clock>>

\* Faulty: the cooldown starts whether or not the alert went out.
StampsEvenFailures(c) == c.event.cooldown > 0

\* What makes a post write the file.
Stamps(c) == c.ok /\ c.event.cooldown > 0

\* The file a post writes: the copy it loaded, its own stamp renewed.
Written(c) ==
    {s \in c.state : ~Names(s, c.event)} \union {StampOf(c.event, c.began)}

SentRecord(c, clean) ==
    [taxonomy |-> c.event.taxonomy, key |-> c.event.key, cooldown |-> c.event.cooldown,
     at |-> c.began, clean |-> clean]

\* A sent alert is stamped with the time its post began, a failed one is not.
Record(p) ==
    /\ post[p].at = "record"
    /\ alert_file' = IF Stamps(post[p]) THEN Written(post[p]) ELSE alert_file
    /\ sent' = IF post[p].ok THEN Append(sent, SentRecord(post[p], post[p].alone)) ELSE sent
    /\ post' = [post EXCEPT ![p] = NoPost]
    /\ UNCHANGED clock

\* The process dies in its post; what was already sent stays without a stamp.
PostDies(p) ==
    /\ InPost(p)
    /\ post' = [post EXCEPT ![p] = NoPost]
    /\ sent' = IF post[p].ok THEN Append(sent, SentRecord(post[p], FALSE)) ELSE sent
    /\ UNCHANGED <<alert_file, clock>>

\* Time passes.
ClockTicks ==
    /\ clock < MaxTime
    /\ clock' = clock + 1
    /\ UNCHANGED <<alert_file, post, sent>>

AlertsInit ==
    /\ alert_file = {}
    /\ post = [p \in Posters |-> NoPost]
    /\ sent = <<>>
    /\ clock = 0

PostStep(p) ==
    Suppress(p) \/ BeginSend(p) \/ AttemptFails(p) \/ AttemptSucceeds(p) \/ Record(p)

-----------------------------------------------------------------------------
AlertsTypeOK ==
    /\ alert_file \subseteq Stamp
    /\ post \in [Posters -> {NoPost} \union Post]
    /\ sent \in Seq([taxonomy: Taxonomies, key: Keys, cooldown: 0..MaxCooldown,
                     at: Time, clean: BOOLEAN])
    /\ clock \in Time

\* Every stamp in the file is an alert that was really sent, so no alert is held back
\* on account of one that failed (the ok of post_ntfy_alert).
StampsWereSent ==
    \A s \in alert_file :
        \E n \in DOMAIN sent : Names(s, sent[n]) /\ s.sent_at = sent[n].at

\* The operator sees one alert twice within its cooldown only if one of the two posts
\* overlapped another post, or died between its send and its stamp: whatever posts,
\* failures and other alerts came between two undisturbed ones, the second is held back.
DuplicateNeedsRace ==
    \A m, n \in DOMAIN sent :
        /\ m < n /\ sent[m].clean /\ sent[n].clean
        /\ sent[m].taxonomy = sent[n].taxonomy /\ sent[m].key = sent[n].key
        /\ sent[n].cooldown > 0
        => sent[n].at - sent[m].at >= sent[n].cooldown
=============================================================================
