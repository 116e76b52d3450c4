---------------------------- MODULE AdminAccess ----------------------------
(***************************************************************************)
(* Signing in to the operations console (src/admin_console): a challenge   *)
(* is issued, the employee's card signs its nonce, and the answer is       *)
(* verified against the pinned CA bundle before a session is opened.       *)
(*                                                                         *)
(* A handler never awaits once it has read its form, so each is one step.  *)
(* Sessions, challenges, the list of employees and the CA bundle once read *)
(* live in the process and go with it.  Browsers may answer twice, late,   *)
(* or with the answer to another challenge, and answers may arrive damaged.*)
(***************************************************************************)
EXTENDS Naturals, Sequences, FiniteSetsExt, SequencesExt

CONSTANTS
  Cards,          \* the certificates of employees
  Bundles,        \* what the file CARD_CA_BUNDLE_PATH may hold
  Employee,
  Lists,          \* what ADMIN_CARD_SERIALS may say in .env
  Nil,
  PasswordFallback, SkipNonceBinding,
  Ttl,            \* ChallengeStore's ttl_sec
  MaxDepth,       \* 8: how far a chain is followed
  MaxTokens,      \* bound: challenges issued
  MaxTime,        \* bound: the clock
  MaxLogins,      \* bound: sign-ins with the password
  MaxBundles,     \* bound: bundles put in place of others
  MaxBoots,       \* bound: restarts of the console
  MaxLogFaults    \* bound: lines of the change log that cannot be written

Token == 1..MaxTokens
Certs == Cards \cup UNION {ToSet(b) : b \in Bundles}

ASSUME AccessAssumption ==
  /\ Bundles # {} /\ \A b \in Bundles : b \in Seq(ToSet(b))
  /\ Lists # {} /\ Lists \subseteq SUBSET Employee
  /\ Nil \notin Employee /\ "password" \notin Employee
  /\ PasswordFallback \in BOOLEAN /\ SkipNonceBinding \in BOOLEAN
  /\ \A c \in Certs : c.from \in Nat /\ c.until \in Nat
  /\ {Ttl, MaxDepth, MaxTokens, MaxTime, MaxLogins, MaxBundles, MaxBoots, MaxLogFaults} \subseteq Nat

VARIABLES
  now,         \* the clock
  file,        \* the CA bundle on disk
  anchors,     \* _ca_anchor_cache: the bundle this process has read, or Nil
  serials,     \* card_serials: ADMIN_CARD_SERIALS when this process was started
  challenges,  \* ChallengeStore._items, by token; a nonce goes by its token's number
  sessions,    \* the live sessions, by number
  lines,       \* changes.jsonl: how many sign-ins it tells of, by employee
  tally,       \* challenges, passwords, bundles, boots and faults so far
  issued,      \* history: when and by which boot each challenge was issued
  opened,      \* history: every session ever opened, and on what grounds
  verdict      \* history: the last answer of a card, and what became of it

accessVars == <<now, file, anchors, serials, challenges, sessions, lines, tally,
               issued, opened, verdict>>

-----------------------------------------------------------------------------
(* The signed answer: a CMS SignedData.  A signature is the key that made it
   and what it covers; a digest is what it is the digest of. *)

\* What the card of certificate c makes of nonce n.
CardAnswer(c, n) ==
  [readable |-> TRUE, content |-> n, signers |-> TRUE, certs |-> <<c>>, sid |-> c.serial,
   attrs |-> TRUE, digest |-> n, key |-> c.key, covers |-> n]

\* What may be left of it on the way to the console.
Damaged(m) ==
  {[m EXCEPT !.readable = FALSE], [m EXCEPT !.signers = FALSE], [m EXCEPT !.certs = <<>>]}
    \cup {[m EXCEPT !.content = n] : n \in Token \cup {Nil}}

\* _match_signer_cert: the first certificate with the serial number of the sid
Signers(m) ==
  LET same == {i \in DOMAIN m.certs : m.certs[i].serial = m.sid} IN
  IF same = {} THEN {} ELSE {m.certs[Min(same)]}

\* _verify_signer_info, _verify_signature
Signed(m, c) ==
  /\ m.attrs => m.digest = m.content
  /\ m.key = c.key
  /\ m.covers = IF m.attrs THEN m.digest ELSE m.content

-----------------------------------------------------------------------------
(* The chain of certificates. *)

Valid(c, at) == c.from <= at /\ at <= c.until
SignedBy(c, p) == c.by = p.key

SelfIssued(b) == {c \in ToSet(b) : c.subject = c.issuer}

\* _load_ca_anchors: it refuses a bundle without roots, or with one not signed by itself
Usable(b) == SelfIssued(b) # {} /\ \A c \in SelfIssued(b) : SignedBy(c, c)

\* The dictionary of the anchors keeps the last certificate of a subject.
Anchor(b, name) ==
  LET named == {i \in DOMAIN b : b[i].subject = name} IN
  IF named = {} THEN {} ELSE {b[Max(named)]}

\* mutant: only the certificate of the card is checked for its dates
InReachUndated(b, at, card) ==
  LET reached[n \in 0..MaxDepth] ==
        IF n = 0 THEN {}
        ELSE LET below == reached[n - 1] IN
             {c \in {card} \cup ToSet(b) :
                /\ c = card => Valid(c, at)
                /\ \/ c \in SelfIssued(b)
                   \/ \E p \in Anchor(b, c.issuer) : SignedBy(c, p) /\ p \in below}
  IN reached

\* The certificates from which a root of the bundle is in reach within n certificates.
InReach(b, at, card) ==
  LET reached[n \in 0..MaxDepth] ==
        IF n = 0 THEN {}
        ELSE LET below == reached[n - 1] IN
             {c \in {card} \cup ToSet(b) :
                /\ Valid(c, at)
                /\ \/ c \in SelfIssued(b)
                   \/ \E p \in Anchor(b, c.issuer) : SignedBy(c, p) /\ p \in below}
  IN reached

\* _verify_chain: climb from the card to a root of the bundle
Climbs(b, at, card) == card \in InReach(b, at, card)[MaxDepth]

\* _extract_claims: number, name, and one of the two addresses
Claimed(c) == c.employee # Nil /\ c.named /\ c.mail # {}

-----------------------------------------------------------------------------
AccessInit ==
  /\ now = 0
  /\ file \in Bundles
  /\ anchors = Nil
  /\ serials \in Lists
  /\ serials # {} \/ PasswordFallback    \* otherwise create_app_from_env raises
  /\ challenges = <<>>
  /\ sessions = {}
  /\ lines = [e \in Employee \cup {"password"} |-> 0]
  /\ tally = [tokens |-> 0, logins |-> 0, bundles |-> 0, boots |-> 0, faults |-> 0]
  /\ issued = <<>>
  /\ opened = {}
  /\ verdict = [code |-> "none"]

\* ChallengeStore.issue: drop what has expired, add the new one
Challenge ==
  LET t == tally.tokens + 1
      kept == {k \in DOMAIN challenges : challenges[k] > now}
  IN
  /\ t \in Token
  /\ tally' = [tally EXCEPT !.tokens = t]
  /\ challenges' = [k \in kept \cup {t} |-> IF k = t THEN now + Ttl ELSE challenges[k]]
  /\ issued' = Append(issued, [at |-> now, boot |-> tally.boots])
  /\ UNCHANGED <<now, file, anchors, serials, sessions, lines, opened, verdict>>

\* mutant: a challenge stays until it expires
KeptAfter(t) == DOMAIN challenges

\* ChallengeStore.consume takes the challenge away, whatever comes of it
Consumed(t) == DOMAIN challenges \ {t}

Live(t) == t \in DOMAIN challenges /\ challenges[t] > now

\* What verify and card_verify make of the answer, in the order they look.
Examined(m, nonce, b) ==
  LET signer == Signers(m) IN
  IF ~m.readable THEN "unreadable"
  ELSE IF b = Nil THEN "config"
  ELSE IF m.content = Nil \/ (~SkipNonceBinding /\ m.content # nonce) THEN "content"
  ELSE IF ~m.signers \/ \A c \in signer : ~Signed(m, c) THEN "signature"
  ELSE IF \A c \in signer : ~Climbs(b, now, c) THEN "chain"
  ELSE IF \A c \in signer : ~Claimed(c) THEN "claims"
  ELSE IF \A c \in signer : c.employee \notin serials THEN "unlisted"
  ELSE "signed in"

Session(who, grounds) ==
  [n |-> Cardinality(opened) + 1, who |-> who, boot |-> tally.boots, on |-> grounds]

\* mutant: the session is there before the line that tells of it is written
SignInFirst(who, grounds, spent) ==
  /\ sessions' = sessions \cup {Session(who, grounds).n}
  /\ opened' = opened \cup {Session(who, grounds)}
  /\ \/ lines' = [lines EXCEPT ![who] = @ + 1] /\ tally' = spent
     \/ /\ tally.faults < MaxLogFaults
        /\ tally' = [spent EXCEPT !.faults = @ + 1] /\ UNCHANGED lines

\* log_change, then _new_session_response; a log that cannot be written answers 500
SignIn(who, grounds, spent) ==
  \/ /\ lines' = [lines EXCEPT ![who] = @ + 1]
     /\ sessions' = sessions \cup {Session(who, grounds).n}
     /\ opened' = opened \cup {Session(who, grounds)}
     /\ tally' = spent
  \/ /\ tally.faults < MaxLogFaults
     /\ tally' = [spent EXCEPT !.faults = @ + 1]
     /\ UNCHANGED <<lines, sessions, opened>>

Decided == {"chain", "claims", "unlisted", "signed in"}

\* POST /api/auth/card/verify with token t and answer m, made by card c for nonce n
CardVerify(t, c, n, m) ==
  LET b == IF anchors # Nil THEN anchors ELSE IF Usable(file) THEN file ELSE Nil
      code == Examined(m, t, b)
      grounds == [token |-> t, card |-> c, nonce |-> n, at |-> now, bundle |-> b]
  IN
  /\ t \in DOMAIN challenges
  /\ challenges' = [k \in Consumed(t) |-> challenges[k]]
  /\ UNCHANGED <<now, file, serials, issued>>
  /\ IF Live(t)
     THEN /\ anchors' = IF m.readable THEN b ELSE anchors
          /\ verdict' = IF code \in Decided THEN [code |-> code, on |-> grounds]
                        ELSE [code |-> "refused"]
          /\ IF code = "signed in"
             THEN SignIn(c.employee, grounds, tally)
             ELSE UNCHANGED <<sessions, lines, tally, opened>>
     ELSE /\ verdict' = [code |-> "refused"]
          /\ UNCHANGED <<anchors, sessions, lines, tally, opened>>

\* POST /login with the right name and password
Login ==
  /\ PasswordFallback
  /\ tally.logins < MaxLogins
  /\ SignIn("password", Nil, [tally EXCEPT !.logins = @ + 1])
  /\ UNCHANGED <<now, file, anchors, serials, challenges, issued, verdict>>

Logout(n) ==
  /\ sessions' = sessions \ {n}
  /\ UNCHANGED <<now, file, anchors, serials, challenges, lines, tally, issued,
                 opened, verdict>>

Tick ==
  /\ now < MaxTime
  /\ now' = now + 1
  /\ UNCHANGED <<file, anchors, serials, challenges, sessions, lines, tally,
                 issued, opened, verdict>>

\* An operator puts another bundle in place.
Replace ==
  /\ tally.bundles < MaxBundles
  /\ tally' = [tally EXCEPT !.bundles = @ + 1]
  /\ file' \in Bundles \ {file}
  /\ UNCHANGED <<now, anchors, serials, challenges, sessions, lines, issued,
                 opened, verdict>>

\* create_app_from_env in a new process, which refuses to start when nobody could sign in
Reboot ==
  /\ tally.boots < MaxBoots
  /\ tally' = [tally EXCEPT !.boots = @ + 1]
  /\ serials' \in Lists
  /\ serials' # {} \/ PasswordFallback
  /\ anchors' = Nil
  /\ challenges' = <<>>
  /\ sessions' = {}
  /\ UNCHANGED <<now, file, lines, issued, opened, verdict>>

AccessNext ==
  \/ Challenge
  \/ \E t \in Token, c \in Cards, n \in 1..tally.tokens :
       \E m \in {CardAnswer(c, n)} \cup Damaged(CardAnswer(c, n)) : CardVerify(t, c, n, m)
  \/ Login
  \/ \E n \in sessions : Logout(n)
  \/ Tick \/ Replace \/ Reboot

AccessSpec == AccessInit /\ [][AccessNext]_accessVars

-----------------------------------------------------------------------------

\* changes.jsonl tells of every sign-in: no employee, nor the password, has opened more
\* sessions than it has lines, even when lines could not be written (log_change before
\* _new_session_response, service/app.py).
SignInsAccounted ==
  \A who \in Employee \cup {"password"} :
    Cardinality({s \in opened : s.who = who}) <= lines[who]

\* A session opened by a card rests on a signature over the nonce of a challenge this very
\* process had issued, less than Ttl ago, and no other session rests on that challenge
\* (ChallengeStore.consume and the comparison with eContent, "一次性").
AnswersAreFresh ==
  \A s \in opened : s.on # Nil =>
    /\ s.on.nonce = s.on.token
    /\ issued[s.on.token].boot = s.boot
    /\ s.on.at < issued[s.on.token].at + Ttl
    /\ \A r \in opened : r.on # Nil /\ r.on.token = s.on.token => r = s

\* A chain from the card to a certificate of the bundle that signed itself, each link
\* signed by the next and each certificate within its dates.
Trusted(b, at, card) ==
  \E k \in 1..Len(b) + 1 : \E p \in [1..k -> {card} \cup ToSet(b)] :
    /\ p[1] = card
    /\ p[k] \in ToSet(b) /\ p[k].subject = p[k].issuer
    /\ \A i \in 1..k : p[i].from <= at /\ at <= p[i].until
    /\ \A i \in 1..(k - 1) :
         /\ p[i + 1] \in ToSet(b)
         /\ p[i].issuer = p[i + 1].subject /\ p[i].by = p[i + 1].key

\* Climbing the bundle by issuer decides what it should: an answer that gets past it has a
\* chain to a root as of that moment, and one refused for its chain has none, unless two
\* certificates of the bundle share a subject (_verify_chain, _load_ca_anchors).
ChainDecided ==
  verdict.code \in Decided =>
    LET g == verdict.on IN
    /\ verdict.code \in {"claims", "unlisted", "signed in"} => Trusted(g.bundle, g.at, g.card)
    /\ verdict.code = "chain" /\ Cardinality({c.subject : c \in ToSet(g.bundle)}) = Len(g.bundle)
         => ~Trusted(g.bundle, g.at, g.card)

(* The inductive invariant: a challenge that is still there was issued by this process,    *)
(* and one that a session rests on is spent.                                               *)

AccessTypeOK ==
  /\ now \in Nat /\ file \in Bundles /\ anchors \in Bundles \cup {Nil} /\ serials \in Lists
  /\ tally \in [tokens : 0..MaxTokens, logins : 0..MaxLogins, bundles : 0..MaxBundles,
                boots : 0..MaxBoots, faults : 0..MaxLogFaults]
  /\ issued \in Seq([at : Nat, boot : 0..MaxBoots]) /\ Len(issued) = tally.tokens
  /\ \E live \in SUBSET Token : challenges \in [live -> Nat]
  /\ lines \in [Employee \cup {"password"} -> Nat]
  /\ IsFiniteSet(opened) /\ \A n \in sessions : \E s \in opened : s.n = n

Outstanding ==
  \A t \in DOMAIN challenges :
    /\ t \in DOMAIN issued
    /\ challenges[t] = issued[t].at + Ttl /\ issued[t].boot = tally.boots

\* A session of a card rests on a challenge that is spent, and on it alone.
RestsOnSpent ==
  \A s \in opened : s.on # Nil =>
    /\ s.on.token \in DOMAIN issued \ DOMAIN challenges
    /\ ~SkipNonceBinding => s.on.nonce = s.on.token
    /\ issued[s.on.token].boot = s.boot
    /\ s.on.at < issued[s.on.token].at + Ttl
    /\ \A r \in opened : r.on # Nil /\ r.on.token = s.on.token => r = s

AccessInv == AccessTypeOK /\ Outstanding /\ RestsOnSpent /\ SignInsAccounted

=============================================================================
