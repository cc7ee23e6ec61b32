------------------------- MODULE PreopenGateProofs --------------------------
(***************************************************************************)
(* What the pre-open gate, its cancel ledger and its alerts guarantee for  *)
(* any number of overlapping runs, orders and alerts.                      *)
(*                                                                         *)
(* The alert file is read, changed and written whole by posts that may     *)
(* overlap, so stamps do get lost.  The proof says which cannot: a stamp   *)
(* of an undisturbed post is in the file and in every copy of it that a    *)
(* post in progress holds.                                                 *)
(***************************************************************************)
EXTENDS PreopenGate, SequenceTheorems, TLAPS

SentAlert == [taxonomy: Taxonomies, key: Keys, cooldown: 0..MaxCooldown,
              at: Time, clean: BOOLEAN]

\* An alert's cooldown follows from what kind it is.
CooldownOf(taxonomy) ==
    IF taxonomy = "PREOPEN_GATE_DEGRADED" THEN DegradedCooldown ELSE CancelCooldown

WasSent(s) == \E n \in DOMAIN sent : Names(s, sent[n]) /\ s.sent_at = sent[n].at

Counts(n) == sent[n].clean /\ sent[n].cooldown > 0

\* A file that knows of every undisturbed alert, or of a later one like it.
Covers(S) ==
    \A n \in DOMAIN sent :
        Counts(n) => \E s \in S : Names(s, sent[n]) /\ s.sent_at >= sent[n].at

CallInv(c) ==
    /\ c.began <= clock
    /\ c.at # "record" => c.tries > 0
    /\ c.ok => c.at = "record"
    /\ c.at # "load" => ~Suppressed(c)
    /\ c.event.cooldown = CooldownOf(c.event.taxonomy)
    /\ \A s \in c.state : WasSent(s)
    /\ Covers(c.state)
    /\ \A n \in DOMAIN sent : Counts(n) => sent[n].at <= c.began

AloneInv ==
    \A p, q \in Posters : p # q /\ InPost(p) /\ InPost(q) => ~post[p].alone

SentInv ==
    \A n \in DOMAIN sent :
        sent[n].cooldown = CooldownOf(sent[n].taxonomy) /\ sent[n].at <= clock

AlertInv ==
    /\ AlertsTypeOK
    /\ \A p \in Posters : InPost(p) => CallInv(post[p])
    /\ AloneInv
    /\ SentInv
    /\ StampsWereSent
    /\ Covers(alert_file)
    /\ DuplicateNeedsRace

-----------------------------------------------------------------------------
(* The alerts.                                                             *)

LEMMA AlertsInitInv == AlertsInit => AlertInv
BY AlertsAssumption DEF AlertsInit, AlertInv, AlertsTypeOK, InPost, AloneInv, SentInv,
   StampsWereSent, Covers, DuplicateNeedsRace, Time

\* Where a post stands says whether there is one.
LEMMA PostFields ==
  ASSUME AlertsTypeOK, NEW p \in Posters
  PROVE  /\ InPost(p) => post[p] \in Post
         /\ post[p].at \in {"load", "send", "record"} => InPost(p)
BY DEF AlertsTypeOK, InPost, NoPost, Post

\* A record is in the log, and stays there when others are appended.
LEMMA LogGrows ==
  ASSUME AlertsTypeOK, NEW r \in SentAlert, sent' = Append(sent, r)
  PROVE  /\ sent' \in Seq(SentAlert)
         /\ DOMAIN sent' = DOMAIN sent \union {Len(sent) + 1}
         /\ DOMAIN sent = 1..Len(sent) /\ Len(sent) \in Nat
         /\ sent'[Len(sent) + 1] = r
         /\ \A n \in DOMAIN sent : sent'[n] = sent[n] /\ n < Len(sent) + 1
BY DEF AlertsTypeOK, SentAlert

LEMMA SentFields ==
  ASSUME AlertsTypeOK, NEW n \in DOMAIN sent
  PROVE  /\ sent[n] \in SentAlert /\ sent[n].at \in Nat /\ sent[n].cooldown \in Nat
         /\ sent[n].clean \in BOOLEAN /\ sent[n].at \in Time /\ n \in 1..Len(sent)
<1>1. sent \in Seq(SentAlert) /\ n \in 1..Len(sent)
  BY DEF AlertsTypeOK, SentAlert
<1>2. sent[n] \in SentAlert
  BY <1>1
<1> QED BY <1>1, <1>2, AlertsAssumption DEF SentAlert, Time

\* A step that only moves posts along.
LEMMA PostsMove ==
  ASSUME AlertInv, UNCHANGED <<alert_file, sent>>, clock' \in Time, clock' >= clock,
         post' \in [Posters -> {NoPost} \union Post],
         \A p \in Posters : InPost(p)' =>
            /\ InPost(p) /\ post'[p].event = post[p].event
            /\ post'[p].began = post[p].began /\ post'[p].state = post[p].state
            /\ post'[p].alone = post[p].alone
            /\ post'[p].at # "record" => post'[p].tries > 0
            /\ post'[p].ok => post'[p].at = "record"
            /\ post'[p].at # "load" => post[p].at # "load" \/ ~Suppressed(post[p])
  PROVE  AlertInv'
<1>1. AlertsTypeOK'
  BY DEF AlertInv, AlertsTypeOK
<1>2. ASSUME NEW p \in Posters, InPost(p)' PROVE CallInv(post[p])'
  <2>1. post[p] \in Post /\ post'[p] \in Post /\ clock \in Time
    BY <1>1, <1>2, PostFields DEF AlertInv, AlertsTypeOK, InPost
  <2>2. CallInv(post[p]) /\ Suppressed(post'[p]) = Suppressed(post[p])
    BY <1>2 DEF AlertInv, Suppressed
  <2>3. clock \in Nat /\ clock' \in Nat /\ post[p].began \in Nat
    BY <2>1, AlertsAssumption DEF Time, Post
  <2> QED BY <1>2, <2>2, <2>3 DEF CallInv, WasSent, Covers, Counts
<1>3. AloneInv'
  BY DEF AlertInv, AloneInv
<1>4. SentInv'
  <2>1. clock \in Nat /\ clock' \in Nat
    BY AlertsAssumption DEF AlertInv, AlertsTypeOK, Time
  <2> QED BY <2>1, SentFields DEF AlertInv, SentInv
<1> QED BY <1>1, <1>2, <1>3, <1>4
        DEF AlertInv, StampsWereSent, Covers, Counts, DuplicateNeedsRace

\* Suppress and the attempts.
LEMMA PostMovesOn ==
  ASSUME AlertInv, NEW p \in Posters,
         Suppress(p) \/ BeginSend(p) \/ AttemptFails(p) \/ AttemptSucceeds(p)
  PROVE  AlertInv'
<1>1. UNCHANGED <<alert_file, sent, clock>> /\ clock \in Time /\ clock >= clock
  BY AlertsAssumption DEF Suppress, BeginSend, AttemptFails, AttemptSucceeds, AlertInv,
     AlertsTypeOK, Time
<1>2. post \in [Posters -> {NoPost} \union Post] /\ post[p] \in Post /\ CallInv(post[p])
  BY PostFields DEF AlertInv, AlertsTypeOK, Suppress, BeginSend, AttemptFails,
     AttemptSucceeds
<1>3. PICK x \in {NoPost} \union Post :
        /\ post' = [post EXCEPT ![p] = x]
        /\ x # NoPost => /\ x.event = post[p].event /\ x.began = post[p].began
                         /\ x.state = post[p].state /\ x.alone = post[p].alone
                         /\ x.at # "record" => x.tries > 0
                         /\ x.ok => x.at = "record"
                         /\ x.at # "load" => post[p].at # "load" \/ ~Suppressed(post[p])
  <2>1. CASE Suppress(p)
    BY <2>1 DEF Suppress
  <2>2. CASE BeginSend(p)
    <3> DEFINE x == [post[p] EXCEPT !.at = "send"]
    <3>1. x \in Post /\ x.event = post[p].event /\ x.began = post[p].began
          /\ x.state = post[p].state /\ x.alone = post[p].alone /\ x.tries = post[p].tries
          /\ x.ok = post[p].ok
      BY <1>2 DEF Post
    <3>2. post' = [post EXCEPT ![p] = x] /\ ~Suppressed(post[p]) /\ x.tries > 0 /\ ~x.ok
      BY <1>2, <2>2, <3>1 DEF BeginSend, CallInv
    <3> QED BY <3>1, <3>2
  <2>3. CASE AttemptFails(p)
    <3> DEFINE left == post[p].tries - 1
               to == IF post[p].tries = 1 THEN "record" ELSE "send"
               x == [post[p] EXCEPT !.tries = left, !.at = to]
    <3>1. left \in 0..Attempts /\ to \in {"record", "send"} /\ (to # "record" => left > 0)
      BY <1>2, <2>3, AlertsAssumption DEF AttemptFails, CallInv, Post
    <3>4. post[p].at = "send" /\ post' = [post EXCEPT ![p] = x]
      BY <1>2, <2>3 DEF AttemptFails
    <3> HIDE DEF left, to
    <3>2. x \in Post /\ x.event = post[p].event /\ x.began = post[p].began
          /\ x.state = post[p].state /\ x.alone = post[p].alone
          /\ (x.at # "record" => x.tries > 0) /\ x.ok = post[p].ok
      BY <1>2, <3>1 DEF Post
    <3> QED BY <1>2, <3>2, <3>4 DEF CallInv
  <2>4. CASE AttemptSucceeds(p)
    <3> DEFINE sends == TRUE
               x == [post[p] EXCEPT !.ok = sends, !.at = "record"]
    <3>3. sends \in BOOLEAN
      OBVIOUS
    <3> HIDE DEF sends
    <3>1. x \in Post /\ x.event = post[p].event /\ x.began = post[p].began
          /\ x.state = post[p].state /\ x.alone = post[p].alone /\ x.at = "record"
      BY <1>2, <3>3 DEF Post
    <3>2. post' = [post EXCEPT ![p] = x] /\ post[p].at # "load"
      BY <1>2, <2>4 DEF AttemptSucceeds, sends
    <3> QED BY <3>1, <3>2
  <2> QED BY <2>1, <2>2, <2>3, <2>4
<1>4. post' \in [Posters -> {NoPost} \union Post] /\ post'[p] = x
      /\ \A q \in Posters \ {p} : post'[q] = post[q]
  BY <1>2, <1>3
<1>5. ASSUME NEW q \in Posters, InPost(q)'
      PROVE  /\ InPost(q) /\ post'[q].event = post[q].event
             /\ post'[q].began = post[q].began /\ post'[q].state = post[q].state
             /\ post'[q].alone = post[q].alone
             /\ post'[q].at # "record" => post'[q].tries > 0
             /\ post'[q].ok => post'[q].at = "record"
             /\ post'[q].at # "load" => post[q].at # "load" \/ ~Suppressed(post[q])
  <2>1. CASE q = p
    BY <1>2, <1>3, <1>4, <1>5, <2>1, PostFields DEF InPost, NoPost, Post
  <2>2. CASE q # p
    <3>1. post'[q] = post[q] /\ InPost(q)
      BY <1>4, <1>5, <2>2 DEF InPost
    <3>2. CallInv(post[q])
      BY <3>1 DEF AlertInv
    <3> QED BY <3>1, <3>2 DEF CallInv
  <2> QED BY <2>1, <2>2
<1> QED BY <1>1, <1>4, <1>5, PostsMove

\* A post that begins spoils every other one, and is spoiled by it.
LEMMA BeginStep ==
  ASSUME AlertInv, NEW p \in Posters, ~InPost(p), NEW event \in AlertEvent,
         event.cooldown = CooldownOf(event.taxonomy), BeginPost(p, event),
         UNCHANGED <<alert_file, sent, clock>>
  PROVE  AlertInv'
<1> DEFINE alone == \A r \in Posters \ {p} : ~InPost(r)
           new == [at |-> "load", event |-> event, began |-> clock, state |-> alert_file,
                   tries |-> Attempts, ok |-> FALSE, alone |-> alone]
<1>1. alone \in BOOLEAN /\ clock \in Time /\ alert_file \in SUBSET Stamp
      /\ post \in [Posters -> {NoPost} \union Post] /\ Attempts \in 0..Attempts
  BY AlertsAssumption DEF AlertInv, AlertsTypeOK
<1> HIDE DEF alone
<1>2. /\ new \in Post /\ new.began = clock /\ new.state = alert_file /\ new.event = event
      /\ new.tries = Attempts /\ new.at = "load" /\ new.alone = alone /\ ~new.ok
  BY <1>1 DEF Post
<1> HIDE DEF new
<1>3. post' = [q \in Posters |-> IF q = p THEN new
                                 ELSE IF InPost(q) THEN [post[q] EXCEPT !.alone = FALSE]
                                 ELSE post[q]]
  BY DEF BeginPost, new, alone
<1>4. ASSUME NEW q \in Posters \ {p}, InPost(q)
      PROVE  /\ post'[q] \in Post /\ post'[q].alone = FALSE
             /\ post'[q].at = post[q].at /\ post'[q].event = post[q].event
             /\ post'[q].began = post[q].began /\ post'[q].state = post[q].state
             /\ post'[q].tries = post[q].tries /\ post'[q].ok = post[q].ok
  <2> DEFINE off == FALSE
             x == [post[q] EXCEPT !.alone = off]
  <2>1. off \in BOOLEAN /\ off = FALSE
    OBVIOUS
  <2> HIDE DEF off
  <2>2. post'[q] = x
    BY <1>3, <1>4, <2>1
  <2>3. post[q] \in Post
    BY <1>4, PostFields DEF AlertInv
  <2> QED BY <2>1, <2>2, <2>3 DEF Post
<1>5. /\ post'[p] = new /\ new # NoPost
      /\ \A q \in Posters \ {p} : ~InPost(q) => post'[q] = NoPost
  BY <1>2, <1>3 DEF InPost, NoPost
<1>6. post' \in [Posters -> {NoPost} \union Post]
  BY <1>2, <1>3, <1>4, <1>5
<1>7. ASSUME NEW q \in Posters, InPost(q)' PROVE CallInv(post[q])'
  <2>1. CASE q = p
    <3>1. /\ \A s \in alert_file : WasSent(s)
          /\ Covers(alert_file) /\ SentInv /\ Attempts > 0 /\ clock <= clock
      BY <1>1, AlertsAssumption DEF AlertInv, StampsWereSent, WasSent, Time
    <3> QED BY <1>2, <1>5, <2>1, <3>1 DEF CallInv, WasSent, Covers, Counts, SentInv
  <2>2. CASE q # p
    <3>1. InPost(q)
      BY <1>5, <1>7, <2>2 DEF InPost
    <3>2. CallInv(post[q])
      BY <3>1 DEF AlertInv
    <3>3. Suppressed(post'[q]) = Suppressed(post[q])
      BY <1>4, <2>2, <3>1 DEF Suppressed
    <3> QED BY <1>4, <2>2, <3>1, <3>2, <3>3 DEF CallInv, WasSent, Covers, Counts
  <2> QED BY <2>1, <2>2
<1>8. AloneInv'
  <2>1. ASSUME NEW q \in Posters \ {p}, InPost(q)' PROVE InPost(q) /\ ~post'[q].alone
    BY <1>4, <1>5, <2>1 DEF InPost
  <2>2. (\E q \in Posters \ {p} : InPost(q)) => ~post'[p].alone
    BY <1>2, <1>5 DEF alone
  <2> QED BY <2>1, <2>2 DEF AloneInv
<1> QED BY <1>6, <1>7, <1>8 DEF AlertInv, AlertsTypeOK, SentInv, StampsWereSent, Covers,
           Counts, DuplicateNeedsRace

\* A post ends with its alert sent.  Its record is clean only if no other post is in
\* progress; a clean one that has a cooldown is stamped; and whatever is written into the
\* file keeps it covering all that is clean.
LEMMA SentAlertEnds ==
  ASSUME AlertInv, NEW p \in Posters, post[p] \in Post, post[p].at # "load",
         NEW clean \in BOOLEAN, clean => post[p].alone,
         clean /\ post[p].event.cooldown > 0 => alert_file' = Written(post[p]),
         sent' = Append(sent, SentRecord(post[p], clean)),
         post' = [post EXCEPT ![p] = NoPost],
         alert_file' \in {alert_file, Written(post[p])}, UNCHANGED clock
  PROVE  AlertInv'
<1> DEFINE c == post[p]
           r == SentRecord(post[p], clean)
<1>1. /\ c \in Post /\ c.event \in AlertEvent /\ c.began \in Time /\ c.state \in SUBSET Stamp
      /\ CallInv(c) /\ InPost(p)
      /\ post \in [Posters -> {NoPost} \union Post] /\ clock \in Time
  BY DEF AlertInv, AlertsTypeOK, Post, InPost, NoPost
<1>2. /\ r \in SentAlert /\ r.taxonomy = c.event.taxonomy /\ r.key = c.event.key
      /\ r.cooldown = c.event.cooldown /\ r.at = c.began /\ r.clean = clean
  BY <1>1 DEF SentRecord, SentAlert, AlertEvent
<1>3. PICK stamp \in Stamp :
        /\ stamp = StampOf(c.event, c.began) /\ Names(stamp, r) /\ Names(stamp, c.event)
        /\ stamp.sent_at = c.began
  <2> DEFINE x == StampOf(c.event, c.began)
  <2>1. x \in Stamp /\ Names(x, r) /\ Names(x, c.event) /\ x.sent_at = c.began
    BY <1>1, <1>2 DEF StampOf, Stamp, AlertEvent, Names
  <2> QED BY <2>1, Zenon
<1>4. PICK last \in Nat :
      /\ sent' \in Seq(SentAlert) /\ DOMAIN sent' = DOMAIN sent \union {last}
      /\ DOMAIN sent = 1..Len(sent) /\ sent'[last] = r /\ last \notin DOMAIN sent
      /\ \A n \in DOMAIN sent : sent'[n] = sent[n] /\ n < last
  <2>1. AlertsTypeOK
    BY DEF AlertInv
  <2> QED BY <1>2, <2>1, LogGrows
<1>5. /\ post' \in [Posters -> {NoPost} \union Post] /\ post'[p] = NoPost
      /\ \A q \in Posters \ {p} : post'[q] = post[q]
  BY <1>1
<1> HIDE DEF c, r
<1>6. Written(c) = {s \in c.state : ~Names(s, c.event)} \union {stamp}
  BY <1>3 DEF Written
<1>7. alert_file \in SUBSET Stamp /\ alert_file' \in {alert_file, Written(c)}
  BY DEF AlertInv, AlertsTypeOK, c
<1>8. AlertsTypeOK'
  BY <1>1, <1>3, <1>4, <1>5, <1>6, <1>7 DEF AlertsTypeOK, SentAlert
\* What was sent stays sent.
<1>9. ASSUME NEW s, WasSent(s) PROVE WasSent(s)'
  BY <1>4, <1>9 DEF WasSent
<1>10. WasSent(stamp)'
  BY <1>2, <1>3, <1>4 DEF WasSent
<1>11. StampsWereSent'
  <2>1. \A s \in alert_file \union c.state : WasSent(s)
    BY <1>1 DEF AlertInv, StampsWereSent, WasSent, CallInv
  <2>2. \A s \in alert_file' : WasSent(s)'
    BY <1>6, <1>7, <1>9, <1>10, <2>1
  <2> QED BY <2>2 DEF StampsWereSent, WasSent
\* What covered the earlier alerts covers them.
<1>12. ASSUME NEW S, Covers(S)
       PROVE  \A n \in DOMAIN sent : Counts(n)' =>
                 \E s \in S : Names(s, sent'[n]) /\ s.sent_at >= sent'[n].at
  BY <1>4, <1>12 DEF Covers, Counts
<1>13. \A n \in DOMAIN sent : Counts(n)' =>
          \E s \in Written(c) : Names(s, sent'[n]) /\ s.sent_at >= sent'[n].at
  <2> SUFFICES ASSUME NEW n \in DOMAIN sent, Counts(n)'
               PROVE  \E s \in Written(c) : Names(s, sent'[n]) /\ s.sent_at >= sent'[n].at
    OBVIOUS
  <2>1. Covers(c.state)
    BY <1>1 DEF CallInv
  <2>2. PICK s \in c.state : Names(s, sent'[n]) /\ s.sent_at >= sent'[n].at
    BY <1>12, <2>1
  <2>3. sent'[n].at <= c.began
    BY <1>1, <1>4 DEF CallInv, Counts
  <2>4. CASE Names(s, c.event)
    BY <1>3, <1>6, <2>2, <2>3, <2>4 DEF Names
  <2> QED BY <1>6, <2>2, <2>4
<1>14. Counts(last)' => alert_file' = Written(c)
  BY <1>2, <1>4 DEF Counts, c
<1>15. Covers(alert_file)'
  <2>1. Covers(alert_file)
    BY DEF AlertInv
  <2>2. \A n \in DOMAIN sent : Counts(n)' =>
          \E s \in alert_file' : Names(s, sent'[n]) /\ s.sent_at >= sent'[n].at
    BY <1>7, <1>12, <1>13, <2>1
  <2>3. c.began \in Nat
    BY <1>1, AlertsAssumption DEF Time
  <2>4. Counts(last)' =>
          \E s \in alert_file' : Names(s, sent'[last]) /\ s.sent_at >= sent'[last].at
    BY <1>2, <1>3, <1>4, <1>6, <1>14, <2>3
  <2> QED BY <1>4, <2>2, <2>4 DEF Covers
<1>16. ASSUME NEW q \in Posters, InPost(q)' PROVE CallInv(post[q])'
  <2>1. q # p /\ post'[q] = post[q] /\ InPost(q) /\ CallInv(post[q])
    BY <1>5, <1>16 DEF AlertInv, InPost
  <2>2. ~clean
    BY <1>1, <2>1 DEF AlertInv, AloneInv
  <2>3. ~Counts(last)'
    BY <1>2, <1>4, <2>2 DEF Counts
  <2>4. Covers(post[q].state) /\ \A s \in post[q].state : WasSent(s)'
    BY <1>9, <2>1 DEF CallInv
  <2>5. \A n \in DOMAIN sent' : Counts(n)' =>
          /\ \E s \in post[q].state : Names(s, sent'[n]) /\ s.sent_at >= sent'[n].at
          /\ sent'[n].at <= post[q].began
    BY <1>4, <1>12, <2>1, <2>3, <2>4 DEF CallInv, Counts
  <2> QED BY <2>1, <2>4, <2>5 DEF CallInv, Covers, Suppressed, WasSent, Names
<1>17. AloneInv'
  BY <1>5 DEF AlertInv, AloneInv, InPost
<1>18. SentInv'
  BY <1>1, <1>2, <1>4 DEF AlertInv, SentInv, CallInv
\* An earlier alert like it is at least a cooldown old, or the post would have been held back.
<1>19. ASSUME NEW m \in DOMAIN sent, sent[m].clean, clean,
              sent[m].taxonomy = r.taxonomy, sent[m].key = r.key, r.cooldown > 0
       PROVE  r.at - sent[m].at >= r.cooldown
  <2>1. sent[m].cooldown = r.cooldown
    BY <1>1, <1>2, <1>19 DEF AlertInv, SentInv, CallInv
  <2>2. PICK s \in c.state : Names(s, sent[m]) /\ s.sent_at >= sent[m].at
    BY <1>1, <1>19, <2>1 DEF CallInv, Covers, Counts
  <2>3. Names(s, c.event)
    BY <1>2, <1>19, <2>2 DEF Names
  <2>4. ~Suppressed(c) /\ c.event.cooldown > 0
    BY <1>1, <1>2, <1>19 DEF CallInv, c
  <2>5. ~(c.began - s.sent_at < c.event.cooldown)
    BY <2>2, <2>3, <2>4 DEF Suppressed
  <2>6. s.sent_at \in Nat /\ c.began \in Nat /\ c.event.cooldown \in Nat /\ sent[m].at \in Nat
    BY <1>1, <2>2, SentFields, AlertsAssumption DEF Stamp, Time, AlertEvent, AlertInv
  <2> QED BY <1>2, <2>2, <2>5, <2>6
<1>20. DuplicateNeedsRace'
  BY <1>2, <1>4, <1>19 DEF AlertInv, DuplicateNeedsRace
<1> QED BY <1>8, <1>11, <1>15, <1>16, <1>17, <1>18, <1>20 DEF AlertInv

\* A post ends with nothing sent.
LEMMA PostGone ==
  ASSUME AlertInv, NEW p \in Posters, post' = [post EXCEPT ![p] = NoPost],
         UNCHANGED <<alert_file, sent, clock>>
  PROVE  AlertInv'
<1>1. post' \in [Posters -> {NoPost} \union Post] /\ clock \in Time /\ clock >= clock
      /\ post'[p] = NoPost /\ \A q \in Posters \ {p} : post'[q] = post[q]
  BY AlertsAssumption DEF AlertInv, AlertsTypeOK, Time
<1>2. ASSUME NEW q \in Posters, InPost(q)'
      PROVE  q # p /\ post'[q] = post[q] /\ InPost(q) /\ CallInv(post[q])
  BY <1>1, <1>2 DEF InPost, AlertInv
<1> QED BY <1>1, <1>2, PostsMove DEF CallInv

LEMMA RecordStep == ASSUME AlertInv, NEW p \in Posters, Record(p) PROVE AlertInv'
<1>1. post[p] \in Post /\ post[p].at = "record" /\ post' = [post EXCEPT ![p] = NoPost]
      /\ UNCHANGED clock /\ post[p].alone \in BOOLEAN
  BY PostFields DEF Record, AlertInv, Post
<1>2. CASE post[p].ok
  BY <1>1, <1>2, SentAlertEnds DEF Record, Stamps
<1>3. CASE ~post[p].ok
  BY <1>1, <1>3, PostGone DEF Record, Stamps
<1> QED BY <1>2, <1>3

LEMMA PostDiesStep ==
  ASSUME AlertInv, NEW p \in Posters, PostDies(p)
  PROVE  AlertInv'
<1>1. post[p] \in Post /\ post' = [post EXCEPT ![p] = NoPost]
      /\ UNCHANGED <<alert_file, clock>>
      /\ (post[p].ok => post[p].at = "record")
  BY PostFields DEF PostDies, AlertInv, CallInv
<1>2. CASE post[p].ok
  <2>1. sent' = Append(sent, SentRecord(post[p], FALSE)) /\ post[p].at # "load"
    BY <1>1, <1>2 DEF PostDies
  <2> DEFINE clean == FALSE
  <2>2. clean \in BOOLEAN /\ ~clean /\ sent' = Append(sent, SentRecord(post[p], clean))
    BY <2>1
  <2> HIDE DEF clean
  <2> QED BY <1>1, <2>1, <2>2, SentAlertEnds
<1>3. CASE ~post[p].ok
  BY <1>1, <1>3, PostGone DEF PostDies
<1> QED BY <1>2, <1>3

LEMMA PostStepInv == ASSUME AlertInv, NEW p \in Posters, PostStep(p) PROVE AlertInv'
BY PostMovesOn, RecordStep DEF PostStep

LEMMA ClockStep == ASSUME AlertInv, ClockTicks PROVE AlertInv'
<1>1. clock' \in Time /\ clock' >= clock /\ UNCHANGED <<alert_file, sent, post>>
  BY AlertsAssumption DEF ClockTicks, AlertInv, AlertsTypeOK, Time
<1>2. ASSUME NEW q \in Posters, InPost(q)'
      PROVE  post'[q] = post[q] /\ InPost(q) /\ CallInv(post[q])
  BY <1>1, <1>2 DEF InPost, AlertInv
<1>3. post' \in [Posters -> {NoPost} \union Post]
  BY <1>1 DEF AlertInv, AlertsTypeOK
<1> QED BY <1>1, <1>2, <1>3, PostsMove DEF CallInv

LEMMA AlertsStay == ASSUME AlertInv, UNCHANGED avars PROVE AlertInv'
BY DEF avars, AlertInv, AlertsTypeOK, CallInv, AloneInv, SentInv, StampsWereSent, Covers,
   Counts, WasSent, InPost, DuplicateNeedsRace, Suppressed, Names

-----------------------------------------------------------------------------
(* The gate.                                                               *)

Run == [at: GateAt, gap: Gaps, dry: BOOLEAN, both: BOOLEAN, seen: SUBSET Orders,
        todo: SUBSET Orders, cancelled: SUBSET Orders, failed: SUBSET Orders]

\* What a run has been shown it has dealt with, has given up, or has yet to come to.
RunInv(run) ==
    /\ run.at \in {"cancel", "report"} /\ ~run.dry =>
          \A o \in run.seen \cap Gated \cap Hurt(run.gap) :
              order[o] # "queued" \/ o \in run.failed \union run.todo
    /\ ~run.both => run.cancelled \union run.todo \subseteq Gated \cap Hurt(run.gap)
    /\ run.at \notin {"cancel", "report"} => run.cancelled = {} /\ run.todo = {}
    /\ \A o \in run.seen : order[o] # "absent"

GateInv ==
    /\ AlertInv
    /\ order \in [Orders -> OrderStatus]
    /\ gate \in [Posters -> Run]
    /\ ledger \subseteq Orders /\ orphans \subseteq Orders
    /\ opened \in BOOLEAN /\ runs \in 0..MaxRuns
    /\ LedgerNamesEveryCancel
    /\ \A p \in Posters : RunInv(gate[p])
    /\ \A p \in Posters : InPost(p) => gate[p].at = "posting"

LEMMA NoRunIsRun == NoRun \in Run
BY DEF NoRun, Run, GateAt, Gaps

LEMMA GateInitInv == Init => GateInv
<1> SUFFICES ASSUME Init PROVE GateInv
  OBVIOUS
<1>1. AlertInv /\ \A p \in Posters : ~InPost(p)
  BY AlertsInitInv DEF Init, AlertsInit, InPost
<1>2. \A p \in Posters : gate[p] = NoRun
  BY DEF Init
<1>3. \A p \in Posters : RunInv(gate[p])
  BY <1>2 DEF RunInv, NoRun
<1>4. LedgerNamesEveryCancel
  BY DEF Init, LedgerNamesEveryCancel
<1>5. order \in [Orders -> OrderStatus] /\ gate \in [Posters -> Run] /\ runs \in 0..MaxRuns
  BY NoRunIsRun, GateAssumption DEF Init, OrderStatus
<1> QED BY <1>1, <1>3, <1>4, <1>5 DEF GateInv, Init

\* A run moves on, the others stay, and no order is asked to be cancelled without a row,
\* a lost reply, a dead run or a run that has yet to append it.
LEMMA RunMoves ==
  ASSUME GateInv, NEW p \in Posters, NEW run \in Run, gate' = [gate EXCEPT ![p] = run],
         AlertInv', UNCHANGED opened, runs' \in 0..MaxRuns,
         order' \in [Orders -> OrderStatus],
         ledger' \subseteq Orders, orphans' \subseteq Orders,
         ledger \subseteq ledger', orphans \subseteq orphans',
         \A o \in Orders : order'[o] = order[o] \/ (order[o] # "absent"
                                                    /\ order'[o] \notin {"absent", "queued"}),
         RunInv(run)',
         \A o \in Orders : order'[o] \in {"pending_cancel", "canceled"} =>
            \/ order[o] \in {"pending_cancel", "canceled"}
            \/ o \in orphans'
            \/ run.at = "cancel" /\ o \in run.cancelled,
         gate[p].at = "cancel" =>
            gate[p].cancelled \subseteq ledger' \union orphans'
            \/ (run.at = "cancel" /\ gate[p].cancelled \subseteq run.cancelled),
         \A q \in Posters : InPost(q)' => IF q = p THEN run.at = "posting" ELSE InPost(q)
  PROVE  GateInv'
<1>1. gate' \in [Posters -> Run] /\ gate'[p] = run
      /\ \A q \in Posters \ {p} : gate'[q] = gate[q]
  BY DEF GateInv
<1>2. ASSUME NEW q \in Posters PROVE RunInv(gate[q])'
  <2>1. CASE q = p
    BY <1>1, <2>1 DEF RunInv, Hurt
  <2>2. CASE q # p
    <3>1. RunInv(gate[q]) /\ gate'[q] = gate[q] /\ gate[q] \in Run
      BY <1>1, <2>2 DEF GateInv
    <3> QED BY <3>1 DEF RunInv, Run
  <2> QED BY <2>1, <2>2
<1>3. ASSUME NEW o \in Orders, order'[o] \in {"pending_cancel", "canceled"}
      PROVE  \/ o \in ledger' \union orphans'
             \/ \E q \in Posters : gate'[q].at = "cancel" /\ o \in gate'[q].cancelled
  <2>1. CASE o \in orphans' \/ (run.at = "cancel" /\ o \in run.cancelled)
    BY <1>1, <2>1
  <2>2. CASE order[o] \in {"pending_cancel", "canceled"}
    <3>1. CASE o \in ledger \union orphans
      BY <3>1
    <3>2. CASE \E q \in Posters : gate[q].at = "cancel" /\ o \in gate[q].cancelled
      <4>1. PICK q \in Posters : gate[q].at = "cancel" /\ o \in gate[q].cancelled
        BY <3>2
      <4>2. CASE q = p
        BY <1>1, <4>1, <4>2
      <4>3. CASE q # p
        BY <1>1, <4>1, <4>3
      <4> QED BY <4>2, <4>3
    <3> QED BY <2>2, <3>1, <3>2 DEF GateInv, LedgerNamesEveryCancel
  <2> QED BY <1>3, <2>1, <2>2
<1>4. \A q \in Posters : InPost(q)' => gate'[q].at = "posting"
  BY <1>1 DEF GateInv
<1> QED BY <1>1, <1>2, <1>3, <1>4 DEF GateInv, LedgerNamesEveryCancel

\* What a step finds of a run and of its alert.
LEMMA RunFacts ==
  ASSUME GateInv, NEW p \in Posters
  PROVE  /\ gate[p] \in Run /\ RunInv(gate[p]) /\ RunInv(NoRun)
         /\ AlertInv /\ runs \in 0..MaxRuns /\ order \in [Orders -> OrderStatus]
         /\ gate[p].at # "posting" => ~InPost(p)
         /\ gate[p].cancelled \subseteq Orders /\ gate[p].todo \subseteq Orders
         /\ gate[p].failed \subseteq Orders
BY DEF GateInv, Run, RunInv, NoRun

LEMMA BeginsStep == ASSUME GateInv, NEW p \in Posters, GateBegins(p) PROVE GateInv'
<1>1. PICK f \in Feeds, dry \in BOOLEAN, both \in BOOLEAN :
        gate' = [gate EXCEPT ![p] =
                     IF Unavailable(f) THEN [NoRun EXCEPT !.at = "degraded"]
                     ELSE IF Severe(f)
                     THEN [NoRun EXCEPT !.at = "list", !.gap = Gap(f),
                                        !.dry = dry, !.both = both]
                     ELSE NoRun]
  BY DEF GateBegins
<1> DEFINE run == IF Unavailable(f) THEN [NoRun EXCEPT !.at = "degraded"]
                  ELSE IF Severe(f)
                  THEN [NoRun EXCEPT !.at = "list", !.gap = Gap(f), !.dry = dry, !.both = both]
                  ELSE NoRun
<1>2. [NoRun EXCEPT !.at = "degraded"] \in Run
  BY NoRunIsRun DEF Run, GateAt
<1>3. [NoRun EXCEPT !.at = "list", !.gap = Gap(f), !.dry = dry, !.both = both] \in Run
  BY NoRunIsRun DEF Run, GateAt, Gap, Gaps
<1>4. run \in Run /\ run.at \in {"degraded", "list", "idle"} /\ run.cancelled = {}
      /\ run.todo = {} /\ run.seen = {}
  BY <1>2, <1>3, NoRunIsRun DEF NoRun
<1> HIDE DEF run
<1>5. RunInv(run)'
  BY <1>4 DEF RunInv
<1>6. runs' \in 0..MaxRuns
  BY RunFacts, GateAssumption DEF GateBegins
<1>7. gate' = [gate EXCEPT ![p] = run]
  BY <1>1 DEF run
<1>8. AlertInv' /\ UNCHANGED <<order, ledger, orphans, opened>> /\ gate[p].at = "idle"
      /\ \A q \in Posters : InPost(q)' => InPost(q)
  BY RunFacts, AlertsStay DEF GateBegins, Unposted, avars, InPost
<1>9. ~InPost(p)
  BY <1>8, RunFacts
<1> QED BY <1>4, <1>5, <1>6, <1>7, <1>8, <1>9, RunMoves, RunFacts DEF GateInv

LEMMA ListsStep == ASSUME GateInv, NEW p \in Posters, GateLists(p) PROVE GateInv'
<1>1. PICK shown \in SUBSET OpenOrders :
        gate' = [gate EXCEPT ![p].seen = shown,
                             ![p].todo = IF gate[p].dry THEN {} ELSE ToCancel(gate[p], shown),
                             ![p].at = "cancel"]
  BY DEF GateLists
<1>2. PICK todo : todo = IF gate[p].dry THEN {} ELSE ToCancel(gate[p], shown)
  OBVIOUS
<1>3. gate[p].at = "list" /\ gate[p].cancelled = {} /\ gate[p] \in Run
      /\ shown \subseteq Orders /\ todo \subseteq shown \cap Gated
  BY <1>2, RunFacts DEF GateLists, RunInv, OpenOrders, ToCancel
<1>4. /\ \A o \in shown \cap Gated \cap Hurt(gate[p].gap) : gate[p].dry \/ o \in todo
      /\ ~gate[p].both => todo \subseteq Gated \cap Hurt(gate[p].gap)
  BY <1>2, <1>3 DEF ToCancel, IsAdverseFill, Hurt
<1>5. PICK run \in Run :
        /\ gate' = [gate EXCEPT ![p] = run]
        /\ run.seen = shown /\ run.todo = todo /\ run.at = "cancel"
        /\ run.cancelled = {} /\ run.gap = gate[p].gap /\ run.dry = gate[p].dry
        /\ run.both = gate[p].both
  <2> DEFINE run == [gate[p] EXCEPT !.seen = shown, !.todo = todo, !.at = "cancel"]
  <2>1. /\ run \in Run /\ run.seen = shown /\ run.todo = todo /\ run.at = "cancel"
        /\ run.cancelled = {} /\ run.gap = gate[p].gap /\ run.dry = gate[p].dry
        /\ run.both = gate[p].both
    BY <1>3 DEF Run, GateAt
  <2>2. gate' = [gate EXCEPT ![p] = run]
    BY <1>1, <1>2 DEF GateInv
  <2> QED BY <2>1, <2>2
<1>6. AlertInv' /\ UNCHANGED <<order, ledger, orphans, opened, runs>>
      /\ \A q \in Posters : InPost(q)' => InPost(q)
  BY RunFacts, AlertsStay DEF GateLists, Unposted, avars, InPost
<1>7. RunInv(run)'
  BY <1>4, <1>5, <1>6 DEF RunInv, OpenOrders, Hurt
<1>8. ~InPost(p)
  BY <1>3, RunFacts
<1> QED BY <1>3, <1>5, <1>6, <1>7, <1>8, RunMoves, RunFacts DEF GateInv

\* The run that has counted an order.
LEMMA CountedRun ==
  ASSUME GateInv, NEW p \in Posters, NEW o \in gate[p].todo, gate[p].at = "cancel",
         NEW field \in {"cancelled", "failed"}, Counted(p, o, field)
  PROVE  \E run \in Run :
           /\ gate' = [gate EXCEPT ![p] = run]
           /\ run.at = "cancel" /\ run.todo = gate[p].todo \ {o}
           /\ run.gap = gate[p].gap /\ run.dry = gate[p].dry /\ run.both = gate[p].both
           /\ run.seen = gate[p].seen
           /\ field = "cancelled" => /\ run.cancelled = gate[p].cancelled \union {o}
                                     /\ run.failed = gate[p].failed
           /\ field = "failed" => /\ run.failed = gate[p].failed \union {o}
                                  /\ run.cancelled = gate[p].cancelled
<1>1. gate[p] \in Run /\ o \in Orders /\ gate \in [Posters -> Run]
  BY RunFacts DEF GateInv
<1> DEFINE cancelled == IF field = "cancelled" THEN gate[p].cancelled \union {o}
                        ELSE gate[p].cancelled
           failed == IF field = "failed" THEN gate[p].failed \union {o} ELSE gate[p].failed
           todo == gate[p].todo \ {o}
           run == [gate[p] EXCEPT !.todo = todo, !.cancelled = cancelled, !.failed = failed]
<1>2. cancelled \subseteq Orders /\ failed \subseteq Orders /\ todo \subseteq Orders
  BY <1>1, RunFacts
<1>3. gate' = [gate EXCEPT ![p] = run]
  BY <1>1 DEF Counted
<1> HIDE DEF cancelled, failed, todo
<1>4. run \in Run /\ run.at = "cancel" /\ run.todo = todo
      /\ run.gap = gate[p].gap /\ run.dry = gate[p].dry /\ run.both = gate[p].both
      /\ run.seen = gate[p].seen /\ run.cancelled = cancelled /\ run.failed = failed
  BY <1>1, <1>2 DEF Run
<1> HIDE DEF run
<1> QED BY <1>3, <1>4 DEF cancelled, failed, todo

\* One cancel call: it is counted as accepted only when the broker has the request.
LEMMA CancelStep ==
  ASSUME GateInv, NEW p \in Posters, NEW o \in Orders,
         CancelAccepted(p, o) \/ CancelRaises(p, o) \/ CancelReplyLost(p, o)
  PROVE  GateInv'
<1>1. PICK f \in {"cancelled", "failed"} :
        /\ Counted(p, o, f)
        /\ f = "cancelled" => order' = [order EXCEPT ![o] = "pending_cancel"]
                              /\ order[o] # "absent"
        /\ f = "failed" /\ order' # order =>
              order' = [order EXCEPT ![o] = "pending_cancel"] /\ order[o] # "absent"
              /\ o \in orphans'
  <2>1. CASE CancelAccepted(p, o)
    BY <2>1 DEF CancelAccepted
  <2>2. CASE CancelRaises(p, o)
    BY <2>2 DEF CancelRaises
  <2>3. CASE CancelReplyLost(p, o)
    BY <2>3 DEF CancelReplyLost
  <2> QED BY <2>1, <2>2, <2>3
<1>2. /\ gate[p].at = "cancel" /\ o \in gate[p].todo
      /\ UNCHANGED <<ledger, opened, runs>> /\ orphans \subseteq orphans'
      /\ orphans' \subseteq Orders
      /\ AlertInv' /\ \A q \in Posters : InPost(q)' => InPost(q)
  <2>1. Unposted
    BY DEF CancelAccepted, CancelRaises, CancelReplyLost
  <2>2. AlertInv' /\ \A q \in Posters : InPost(q)' => InPost(q)
    BY <2>1, RunFacts, AlertsStay DEF Unposted, avars, InPost
  <2>3. orphans \subseteq Orders
    BY DEF GateInv
  <2> QED BY <2>2, <2>3 DEF CancelAccepted, CancelRaises, CancelReplyLost
<1>3. PICK run \in Run :
           /\ gate' = [gate EXCEPT ![p] = run]
           /\ run.at = "cancel" /\ run.todo = gate[p].todo \ {o}
           /\ run.gap = gate[p].gap /\ run.dry = gate[p].dry /\ run.both = gate[p].both
           /\ run.seen = gate[p].seen
           /\ f = "cancelled" => /\ run.cancelled = gate[p].cancelled \union {o}
                                 /\ run.failed = gate[p].failed
           /\ f = "failed" => /\ run.failed = gate[p].failed \union {o}
                              /\ run.cancelled = gate[p].cancelled
  <2>1. Counted(p, o, f) /\ o \in gate[p].todo /\ gate[p].at = "cancel"
    BY <1>1, <1>2
  <2> QED BY <2>1, CountedRun
<1>4. order' \in [Orders -> OrderStatus]
      /\ \A x \in Orders : \/ order'[x] = order[x]
                           \/ /\ x = o /\ order'[x] = "pending_cancel" /\ order[x] # "absent"
                              /\ f = "cancelled" \/ o \in orphans'
  <2>1. order \in [Orders -> OrderStatus] /\ "pending_cancel" \in OrderStatus
    BY RunFacts DEF OrderStatus
  <2>2. CASE order' = order
    BY <2>1, <2>2
  <2>3. CASE order' # order
    <3>1. order' = [order EXCEPT ![o] = "pending_cancel"] /\ order[o] # "absent"
          /\ (f = "cancelled" \/ o \in orphans')
      BY <1>1, <2>3
    <3> QED BY <2>1, <3>1
  <2> QED BY <2>2, <2>3
<1>5. f = "cancelled" => order'[o] = "pending_cancel"
  BY <1>1, RunFacts
<1>6. RunInv(run)'
  <2>1. RunInv(gate[p])
    BY RunFacts
  <2>2. \A x \in run.seen : order'[x] # "absent"
    BY <1>3, <1>4, <2>1, RunFacts DEF RunInv, Run
  <2>3. ASSUME ~run.dry, NEW x \in run.seen \cap Gated \cap Hurt(run.gap)
        PROVE  order'[x] # "queued" \/ x \in run.failed \union run.todo
    <3>1. x \in Orders /\ (order[x] # "queued" \/ x \in gate[p].failed \union gate[p].todo)
      BY <1>2, <1>3, <2>1, <2>3, GateAssumption DEF RunInv, Run
    <3>2. CASE x = o
      BY <1>3, <1>5, <3>2
    <3>3. CASE x # o
      BY <1>3, <1>4, <3>1, <3>3
    <3> QED BY <3>2, <3>3
  <2>4. ~run.both => run.cancelled \union run.todo \subseteq Gated \cap Hurt(run.gap)
    BY <1>2, <1>3, <2>1 DEF RunInv
  <2> QED BY <1>3, <2>2, <2>3, <2>4 DEF RunInv, Hurt
<1>7. ~InPost(p)
  BY <1>2, RunFacts
<1>8. ASSUME NEW x \in Orders, order'[x] \in {"pending_cancel", "canceled"}
      PROVE  \/ order[x] \in {"pending_cancel", "canceled"}
             \/ x \in orphans'
             \/ run.at = "cancel" /\ x \in run.cancelled
  BY <1>3, <1>4, <1>8
<1>9. /\ gate[p].cancelled \subseteq run.cancelled /\ ledger' \subseteq Orders
      /\ runs' \in 0..MaxRuns /\ ledger \subseteq ledger'
      /\ \A x \in Orders : order'[x] = order[x] \/ (order[x] # "absent"
                                                    /\ order'[x] \notin {"absent", "queued"})
      /\ \A q \in Posters : InPost(q)' => IF q = p THEN run.at = "posting" ELSE InPost(q)
  BY <1>2, <1>3, <1>4, <1>7 DEF GateInv
<1> QED BY <1>2, <1>3, <1>4, <1>6, <1>8, <1>9, RunMoves

LEMMA AppendStep == ASSUME GateInv, NEW p \in Posters, LedgerAppended(p) PROVE GateInv'
<1>1. /\ gate[p].at = "cancel" /\ gate[p].todo = {}
      /\ UNCHANGED <<order, orphans, opened, runs>>
      /\ ledger' = ledger \union gate[p].cancelled
      /\ AlertInv' /\ \A q \in Posters : InPost(q)' => InPost(q)
  BY RunFacts, AlertsStay DEF LedgerAppended, LedgerRows, Unposted, avars, InPost
<1> DEFINE reporting == [gate[p] EXCEPT !.at = "report"]
<1>2. /\ reporting \in Run /\ reporting.at = "report" /\ reporting.todo = gate[p].todo
      /\ reporting.gap = gate[p].gap /\ reporting.dry = gate[p].dry
      /\ reporting.both = gate[p].both /\ reporting.seen = gate[p].seen
      /\ reporting.cancelled = gate[p].cancelled /\ reporting.failed = gate[p].failed
  BY RunFacts DEF Run, GateAt
<1>3. gate' = [gate EXCEPT ![p] = NoRun] \/ gate' = [gate EXCEPT ![p] = reporting]
  BY DEF LedgerAppended
<1> HIDE DEF reporting
<1>4. PICK run \in Run :
        /\ gate' = [gate EXCEPT ![p] = run] /\ run.at # "cancel"
        /\ run = NoRun \/
              /\ run.at = "report" /\ run.todo = gate[p].todo
              /\ run.gap = gate[p].gap /\ run.dry = gate[p].dry
              /\ run.both = gate[p].both /\ run.seen = gate[p].seen
              /\ run.cancelled = gate[p].cancelled /\ run.failed = gate[p].failed
  <2>1. CASE gate' = [gate EXCEPT ![p] = NoRun]
    BY <2>1, NoRunIsRun DEF NoRun
  <2>2. CASE gate' = [gate EXCEPT ![p] = reporting]
    BY <1>2, <2>2
  <2> QED BY <1>3, <2>1, <2>2
<1>5. RunInv(run)'
  <2>1. RunInv(gate[p])
    BY RunFacts
  <2>2. CASE run = NoRun
    BY <2>2 DEF RunInv, NoRun
  <2>3. CASE run # NoRun
    BY <1>1, <1>4, <2>1, <2>3 DEF RunInv, Hurt
  <2> QED BY <2>2, <2>3
<1>6. ~InPost(p) /\ ledger' \subseteq Orders
  BY <1>1, RunFacts DEF GateInv
<1> QED BY <1>1, <1>4, <1>5, <1>6, RunMoves, RunFacts DEF GateInv

\* A run that posts has nothing left to cancel.
LEMMA RunBecomes ==
  ASSUME GateInv, NEW p \in Posters, NEW at \in {"idle", "posting"},
         gate' = [gate EXCEPT ![p] = [NoRun EXCEPT !.at = at]],
         gate[p].at = "cancel" => gate[p].cancelled \subseteq orphans',
         AlertInv', UNCHANGED <<order, ledger, opened, runs>>,
         orphans \subseteq orphans', orphans' \subseteq Orders,
         \A q \in Posters : InPost(q)' => IF q = p THEN at = "posting" ELSE InPost(q)
  PROVE  GateInv'
<1> DEFINE run == [NoRun EXCEPT !.at = at]
<1>1. run \in Run /\ run.at = at /\ run.cancelled = {} /\ run.todo = {} /\ run.seen = {}
  BY NoRunIsRun DEF Run, GateAt, NoRun
<1>2. gate' = [gate EXCEPT ![p] = run]
  OBVIOUS
<1> HIDE DEF run
<1>3. PICK r : r = run
  OBVIOUS
<1>4. RunInv(r)'
  BY <1>1, <1>3 DEF RunInv
<1> QED BY <1>1, <1>2, <1>3, <1>4, RunMoves, RunFacts DEF GateInv

LEMMA EventsAreAlerts ==
  ASSUME GateInv, NEW p \in Posters
  PROVE  /\ CancelAlert(gate[p]) \in AlertEvent /\ DegradedAlert \in AlertEvent
         /\ CancelAlert(gate[p]).cooldown = CooldownOf(CancelAlert(gate[p]).taxonomy)
         /\ DegradedAlert.cooldown = CooldownOf(DegradedAlert.taxonomy)
<1> DEFINE key == [cancelled |-> gate[p].cancelled, failed |-> gate[p].failed]
           none == [cancelled |-> {}, failed |-> {}]
<1>1. key \in Keys /\ none \in Keys
  <2>1. key \in [cancelled: SUBSET Orders, failed: SUBSET Orders]
        /\ none \in [cancelled: SUBSET Orders, failed: SUBSET Orders]
    BY RunFacts
  <2> QED BY <2>1, GateAssumption
<1>2. /\ {"PREOPEN_CANCEL", "PREOPEN_CANCEL_PARTIAL", "PREOPEN_CANCEL_FAILED",
          "PREOPEN_GATE_DEGRADED"} \subseteq Taxonomies
      /\ CancelCooldown \in 0..MaxCooldown /\ DegradedCooldown \in 0..MaxCooldown
  BY GateAssumption
<1> HIDE DEF key, none
<1> DEFINE taxonomy == CancelAlert(gate[p]).taxonomy
<1>3. taxonomy \in {"PREOPEN_CANCEL", "PREOPEN_CANCEL_PARTIAL", "PREOPEN_CANCEL_FAILED"}
      /\ CancelAlert(gate[p]) =
           [taxonomy |-> taxonomy, key |-> key, cooldown |-> CancelCooldown]
  BY DEF CancelAlert, key
<1>4. DegradedAlert = [taxonomy |-> "PREOPEN_GATE_DEGRADED", key |-> none,
                       cooldown |-> DegradedCooldown]
  BY DEF DegradedAlert, none
<1> HIDE DEF taxonomy
<1> QED BY <1>1, <1>2, <1>3, <1>4 DEF AlertEvent, CooldownOf

LEMMA AlertsStep == ASSUME GateInv, NEW p \in Posters, GateAlerts(p) PROVE GateInv'
<1>1. /\ gate[p].at \in {"report", "degraded"}
      /\ gate' = [gate EXCEPT ![p] = [NoRun EXCEPT !.at = "posting"]]
      /\ UNCHANGED <<alert_file, sent, clock, order, ledger, orphans, opened, runs>>
  BY DEF GateAlerts
<1>2. PICK event \in AlertEvent :
        BeginPost(p, event) /\ event.cooldown = CooldownOf(event.taxonomy)
  BY EventsAreAlerts DEF GateAlerts
<1>3. ~InPost(p) /\ AlertInv
  BY <1>1, RunFacts
<1>4. AlertInv'
  BY <1>1, <1>2, <1>3, BeginStep
<1>5. \A q \in Posters \ {p} : InPost(q)' => InPost(q)
  BY <1>2 DEF BeginPost, InPost
<1>6. orphans' \subseteq Orders
  BY <1>1 DEF GateInv
<1> QED BY <1>1, <1>4, <1>5, <1>6, RunBecomes

LEMMA PostsStep == ASSUME GateInv, NEW p \in Posters, GatePosts(p) PROVE GateInv'
<1>1. /\ gate[p].at = "posting" /\ InPost(p) /\ PostStep(p)
      /\ UNCHANGED <<order, ledger, orphans, opened, runs>>
      /\ post \in [Posters -> {NoPost} \union Post]
  BY DEF GatePosts, GateInv, AlertInv, AlertsTypeOK
<1>2. AlertInv'
  BY <1>1, RunFacts, PostStepInv
<1>3. \A q \in Posters \ {p} : InPost(q)' => InPost(q)
  BY <1>1 DEF PostStep, Suppress, BeginSend, AttemptFails, AttemptSucceeds, Record, InPost
<1>4. orphans' \subseteq Orders
  BY <1>1 DEF GateInv
<1>5. CASE post'[p] = NoPost
  <2>1. gate' = [gate EXCEPT ![p] = NoRun]
    BY <1>5 DEF GatePosts
  <2>2. NoRun = [NoRun EXCEPT !.at = "idle"]
    BY DEF NoRun
  <2>3. gate' = [gate EXCEPT ![p] = [NoRun EXCEPT !.at = "idle"]]
    BY <2>1, <2>2
  <2>4. ~InPost(p)'
    BY <1>5 DEF InPost
  <2> QED BY <1>1, <1>2, <1>3, <1>4, <2>3, <2>4, RunBecomes
<1>6. CASE post'[p] # NoPost
  <2>1. gate' = gate
    BY <1>6 DEF GatePosts
  <2>2. \A q \in Posters : RunInv(gate[q])'
    BY <1>1, <2>1 DEF GateInv, RunInv, Hurt
  <2> QED BY <1>1, <1>2, <1>3, <2>1, <2>2 DEF GateInv, LedgerNamesEveryCancel
<1> QED BY <1>5, <1>6

LEMMA DiesStep == ASSUME GateInv, NEW p \in Posters, GateDies(p) PROVE GateInv'
<1>1. gate' = [gate EXCEPT ![p] = [NoRun EXCEPT !.at = "idle"]]
  <2>1. NoRun = [NoRun EXCEPT !.at = "idle"]
    BY DEF NoRun
  <2> QED BY <2>1 DEF GateDies
<1>2. /\ UNCHANGED <<order, ledger, opened, runs>> /\ orphans \subseteq orphans'
      /\ gate[p].at = "cancel" => gate[p].cancelled \subseteq orphans'
      /\ orphans' \subseteq Orders
  BY RunFacts DEF GateDies, GateInv
<1>3. AlertInv' /\ ~InPost(p)' /\ \A q \in Posters \ {p} : InPost(q)' => InPost(q)
  <2>1. post \in [Posters -> {NoPost} \union Post]
    BY DEF GateInv, AlertInv, AlertsTypeOK
  <2>2. CASE InPost(p)
    <3>1. PostDies(p)
      BY <2>2 DEF GateDies
    <3> QED BY <2>1, <3>1, RunFacts, PostDiesStep DEF PostDies, InPost
  <2>3. CASE ~InPost(p)
    BY <2>3, RunFacts, AlertsStay DEF GateDies, Unposted, avars, InPost
  <2> QED BY <2>2, <2>3
<1> QED BY <1>1, <1>2, <1>3, RunBecomes

\* The broker, the traders and the clock: no order that a run was shown goes back to the
\* queue, and none is asked to be cancelled.
LEMMA WorldMoves ==
  ASSUME GateInv, AlertInv', UNCHANGED <<gate, ledger, orphans, runs>>,
         opened' \in BOOLEAN, order' \in [Orders -> OrderStatus],
         \A p \in Posters : InPost(p)' => InPost(p),
         \A o \in Orders : \/ order'[o] = order[o]
                           \/ order[o] = "absent" /\ order'[o] = "queued"
                           \/ order[o] = "pending_cancel" /\ order'[o] = "canceled"
                           \/ order[o] \in {"queued", "pending_cancel"}
                              /\ order'[o] = "filled"
  PROVE  GateInv'
<1>1. ASSUME NEW p \in Posters PROVE RunInv(gate[p])'
  <2>1. RunInv(gate[p]) /\ gate[p].seen \subseteq Orders /\ gate'[p] = gate[p]
    BY DEF GateInv, Run
  <2>2. \A o \in gate[p].seen :
           order'[o] # "absent" /\ (order'[o] = "queued" => order[o] = "queued")
    BY <2>1 DEF RunInv
  <2> QED BY <2>1, <2>2 DEF RunInv, Hurt
<1>2. LedgerNamesEveryCancel'
  BY DEF GateInv, LedgerNamesEveryCancel
<1> QED BY <1>1, <1>2 DEF GateInv

LEMMA WorldStep ==
  ASSUME GateInv, \/ \E o \in Orders : Queue(o) \/ CancelTakesEffect(o)
                  \/ MarketOpens
                  \/ ClockTicks /\ UNCHANGED gvars
                  \/ UNCHANGED vars
  PROVE  GateInv'
<1>1. order \in [Orders -> OrderStatus] /\ AlertInv /\ opened \in BOOLEAN
      /\ {"queued", "canceled", "filled"} \subseteq OrderStatus
  BY DEF GateInv, OrderStatus
<1>2. ASSUME NEW o \in Orders, Queue(o) \/ CancelTakesEffect(o) PROVE GateInv'
  <2>1. UNCHANGED avars /\ UNCHANGED <<gate, ledger, orphans, opened, runs>>
    BY <1>2 DEF Queue, CancelTakesEffect, Unposted
  <2>2. AlertInv' /\ \A p \in Posters : InPost(p)' => InPost(p)
    BY <1>1, <2>1, AlertsStay DEF avars, InPost
  <2>3. order' \in [Orders -> OrderStatus]
        /\ \A x \in Orders : \/ order'[x] = order[x]
                             \/ order[x] = "absent" /\ order'[x] = "queued"
                             \/ order[x] = "pending_cancel" /\ order'[x] = "canceled"
    BY <1>1, <1>2 DEF Queue, CancelTakesEffect
  <2> QED BY <1>1, <2>1, <2>2, <2>3, WorldMoves
<1>3. CASE MarketOpens
  <2>1. UNCHANGED avars /\ UNCHANGED <<gate, ledger, orphans, runs>> /\ opened' \in BOOLEAN
    BY <1>3 DEF MarketOpens, Unposted
  <2>2. AlertInv' /\ \A p \in Posters : InPost(p)' => InPost(p)
    BY <1>1, <2>1, AlertsStay DEF avars, InPost
  <2>3. PICK late \in SUBSET {o \in Orders : order[o] = "pending_cancel"} :
          order' = [o \in Orders |-> IF order[o] = "queued" \/ o \in late
                                     THEN "filled" ELSE order[o]]
    BY <1>3 DEF MarketOpens
  <2>4. order' \in [Orders -> OrderStatus]
        /\ \A x \in Orders : \/ order'[x] = order[x]
                             \/ order[x] \in {"queued", "pending_cancel"}
                                /\ order'[x] = "filled"
    BY <1>1, <2>3
  <2> QED BY <2>1, <2>2, <2>4, WorldMoves
<1>4. CASE ClockTicks /\ UNCHANGED gvars
  <2>1. AlertInv' /\ UNCHANGED <<order, gate, ledger, orphans, opened, runs, post>>
    BY <1>1, <1>4, ClockStep DEF gvars, ClockTicks
  <2> QED BY <1>1, <2>1, WorldMoves DEF InPost
<1>5. CASE UNCHANGED vars
  <2>1. AlertInv' /\ UNCHANGED <<order, gate, ledger, orphans, opened, runs, post>>
    BY <1>1, <1>5, AlertsStay DEF vars, gvars, avars
  <2> QED BY <1>1, <2>1, WorldMoves DEF InPost
<1> QED BY <1>2, <1>3, <1>4, <1>5

LEMMA GateStepInv == GateInv /\ [Next]_vars => GateInv'
<1> SUFFICES ASSUME GateInv, [Next]_vars PROVE GateInv'
  OBVIOUS
<1>1. ASSUME NEW p \in Posters, GateStep(p) PROVE GateInv'
  BY <1>1, BeginsStep, ListsStep, CancelStep, AppendStep, AlertsStep, PostsStep, DiesStep
     DEF GateStep
<1> QED BY <1>1, WorldStep DEF Next

-----------------------------------------------------------------------------
\* What links the runs, their orders, the ledger, the alert file and its copies holds in
\* every reachable state.
THEOREM GateInvariant == GateSpec => []GateInv
BY GateInitInv, GateStepInv, PTL DEF GateSpec

\* The gate and its alerts keep their types.
THEOREM GateTypes == GateSpec => []GateTypeOK
<1>1. GateInv => GateTypeOK
  BY DEF GateInv, AlertInv, GateTypeOK, Run
<1> QED BY <1>1, GateInvariant, PTL

\* Whatever else goes on, every cancel the broker was asked for is in the ledger, will be,
\* or was lost with its reply or its run.
THEOREM GateLedgerNamesEveryCancel == GateSpec => []LedgerNamesEveryCancel
<1>1. GateInv => LedgerNamesEveryCancel
  BY DEF GateInv
<1> QED BY <1>1, GateInvariant, PTL

\* No order of the hurt side that a run was shown is left to the open in silence, and none
\* that the gap helps is cancelled.
THEOREM GateStopsHurtSide == GateSpec => []GateStopsTheHurtSide
<1>1. GateInv => GateStopsTheHurtSide
  <2> SUFFICES ASSUME GateInv, NEW p \in Posters
               PROVE  /\ gate[p].at \in {"cancel", "report"} /\ gate[p].todo = {}
                         /\ ~gate[p].dry =>
                           \A o \in gate[p].seen \cap Gated \cap Hurt(gate[p].gap) :
                               order[o] # "queued" \/ o \in gate[p].failed
                      /\ ~gate[p].both =>
                           gate[p].cancelled \subseteq Gated \cap Hurt(gate[p].gap)
    BY DEF GateStopsTheHurtSide
  <2> QED BY RunFacts DEF RunInv
<1> QED BY <1>1, GateInvariant, PTL

\* No alert is held back on account of one that failed, for any number of posters.
THEOREM GateStampsWereSent == GateSpec => []StampsWereSent
<1>1. GateInv => StampsWereSent
  BY DEF GateInv, AlertInv
<1> QED BY <1>1, GateInvariant, PTL

\* The same alert goes out twice within its cooldown only through an overlap or a death.
THEOREM GateDuplicateNeedsRace == GateSpec => []DuplicateNeedsRace
<1>1. GateInv => DuplicateNeedsRace
  BY DEF GateInv, AlertInv
<1> QED BY <1>1, GateInvariant, PTL
=============================================================================
