---------------------------- MODULE AccountsProofs ----------------------------
(***************************************************************************)
(* What Accounts guarantees in the schedules in which the rows saved are   *)
(* fresh, for any number of requests, codes, tries and accounts in turn.   *)
(***************************************************************************)
EXTENDS Accounts, FiniteSetTheorems, SequenceTheorems, WellFoundedInduction, TLAPS

CalmStep == Next /\ SavesAreFresh

Kinds == {"", "code", "reset", "order"}

Users == [exists : BOOLEAN, uid : Nat, verified : BOOLEAN, tv : Nat]

Secrets == [uid : Nat, kind : Kinds, age : {"minute", "alive", "expired"}, attempts : Nat,
            used : BOOLEAN, deleted : BOOLEAN, mailed : BOOLEAN, tries : Nat, wins : Nat]

Jobs == [pc : Pcs, user : Users, read : Users, kind : Kinds, secret : Nat, attempts : Nat,
         right : BOOLEAN, since : Nat]

Sessions == [uid : Nat, tv : Nat, since : Nat]

Types ==
    /\ user \in Users
    /\ uids \in Nat
    /\ secret \in Seq(Secrets)
    /\ mailLog \in Nat
    /\ sessions \subseteq Sessions
    /\ resets \in Nat
    /\ job \in [Workers -> Jobs]
    /\ \A w \in Workers : job[w].pc \in {"mail", "spend"} => job[w].secret \in DOMAIN secret

\* The tries of a code are counted in its row as long as it can be used.
Tries ==
    /\ \A i \in DOMAIN secret :
        /\ ~secret[i].used => secret[i].attempts = secret[i].tries /\ secret[i].wins = 0
        /\ secret[i].tries <= MaxAttempts /\ secret[i].wins <= 1
    /\ \A w \in Workers : At(w, "spend") => job[w].attempts < MaxAttempts

\* Requests that carry the row of an account to sign or to save it.
Carrying(w) == job[w].pc \in {"spend", "verify", "sign", "reset"}

\* A cookie, or a copy on its way to one, of the account there is now has its
\* tokenVersion or an older one; in the first case no reset came in between.
Versions ==
    /\ user.exists => user.uid \in 1 .. uids
    /\ ~user.exists => user = NoUser
    /\ \A i \in DOMAIN secret : secret[i].uid > 0
    /\ \A s \in sessions :
        /\ s.uid \in 1 .. uids
        /\ user.exists /\ s.uid = user.uid =>
              s.tv <= user.tv /\ (s.tv = user.tv => s.since = resets)
    /\ \A w \in Workers : Carrying(w) =>
        /\ job[w].user = job[w].read \/ At(w, "sign")
        /\ job[w].user.exists /\ job[w].user.uid \in 1 .. uids
        /\ user.exists /\ job[w].user.uid = user.uid =>
              job[w].user.tv <= user.tv /\ (job[w].user.tv = user.tv => job[w].since = resets)

\* The account that a sign-up is about to insert is new: nobody has a cookie or a copy.
NewAccounts ==
    \A w \in Workers : At(w, "register") =>
        /\ job[w].user.exists /\ job[w].user.uid \in 1 .. uids
        /\ job[w].read.exists => job[w].user.uid = job[w].read.uid
        /\ ~job[w].read.exists =>
            /\ user.exists => user.uid # job[w].user.uid
            /\ \A s \in sessions : s.uid # job[w].user.uid
            /\ \A v \in Workers \ {w} :
                Carrying(v) \/ At(v, "register") => job[v].user.uid # job[w].user.uid

-----------------------------------------------------------------------------
(* Helpers *)

LEMMA MaxOfSome ==
  ASSUME NEW n \in Nat, NEW S \in SUBSET (1 .. n), S # {}
  PROVE  Max(S) \in S
  <1>. DEFINE below == {n - i : i \in S}
  <1>0. \A i \in S : n - i \in Nat
    OBVIOUS
  <1>1. below \in SUBSET Nat /\ below # {}
    <2>1. PICK i \in S : TRUE
      OBVIOUS
    <2>2. n - i \in below
      OBVIOUS
    <2>. QED
      BY <1>0, <2>2
  <1>2. IsWellFoundedOn(OpToRel(<, Nat), Nat)
    BY NatLessThanWellFounded
  <1>3. \E x \in below : \A y \in below : ~(<<y, x>> \in OpToRel(<, Nat))
    BY <1>1, <1>2, WFMin
  <1>4. PICK x \in below : \A y \in below : ~(y < x)
    BY <1>1, <1>3 DEF OpToRel
  <1>5. PICK m \in S : x = n - m
    OBVIOUS
  <1>6. \A y \in S : m >= y
    <2>. TAKE y \in S
    <2>1. n - y \in below
      OBVIOUS
    <2>2. ~(n - y < n - m)
      BY <1>4, <1>5, <2>1
    <2>3. y \in Int /\ m \in Int
      OBVIOUS
    <2>. HIDE DEF below
    <2>. QED
      BY <2>2, <2>3
  <1>. QED
    BY <1>5, <1>6 DEF Max

LEMMA MaxOfTwo ==
  ASSUME NEW a \in Nat, NEW b \in Nat
  PROVE  Max({a, b}) \in {a, b} /\ Max({a, b}) >= a /\ Max({a, b}) >= b
  <1>1. \E x \in {a, b} : \A y \in {a, b} : x >= y
    <2>1. CASE a >= b
      BY <2>1
    <2>2. CASE b >= a
      BY <2>2
    <2>. QED
      BY <2>1, <2>2
  <1>. QED
    BY <1>1 DEF Max

LEMMA IdleJob == Idle \in Jobs /\ NoUser \in Users /\ Idle.pc = "idle"
  BY DEF Idle, Jobs, Pcs, NoUser, Users, Kinds

Others(w) == \A v \in Workers \ {w} : job'[v] = job[v]

\* What the steps of a request leave of it.
LEMMA AfterEnd ==
  ASSUME Types, NEW w \in Workers, End(w)
  PROVE  job' \in [Workers -> Jobs] /\ Others(w) /\ job'[w].pc = "idle"
  BY IdleJob DEF Types, End, Others

LEMMA AfterGoto ==
  ASSUME Types, NEW w \in Workers, NEW pc \in Pcs, Goto(w, pc)
  PROVE  /\ job' \in [Workers -> Jobs] /\ Others(w)
         /\ job'[w] = [job[w] EXCEPT !.pc = pc]
         /\ job'[w].pc = pc /\ job'[w].user = job[w].user /\ job'[w].read = job[w].read
         /\ job'[w].since = job[w].since /\ job'[w].secret = job[w].secret
         /\ job'[w].attempts = job[w].attempts
  BY DEF Types, Goto, Others, Jobs

LEMMA AfterCarry ==
  ASSUME Types, NEW w \in Workers, NEW pc \in Pcs, NEW row \in Users, Carry(w, pc, row)
  PROVE  /\ job' \in [Workers -> Jobs] /\ Others(w)
         /\ job'[w].pc = pc /\ job'[w].user = row /\ job'[w].read = user
         /\ job'[w].since = resets
  <1>. DEFINE t == [Idle EXCEPT !.pc = pc, !.user = row, !.read = user, !.since = resets]
  <1>1. t \in Jobs /\ t.pc = pc /\ t.user = row /\ t.read = user /\ t.since = resets
    BY IdleJob DEF Types, Jobs
  <1>2. job' = [job EXCEPT ![w] = t]
    BY DEF Carry
  <1>. HIDE DEF t
  <1>. QED
    BY <1>1, <1>2 DEF Types, Others

LEMMA AfterSend ==
  ASSUME Types, NEW w \in Workers, NEW pc \in Pcs, NEW uid \in Nat, NEW kind \in Kinds,
         Send(w, pc, uid, kind)
  PROVE  job' \in [Workers -> Jobs] /\ Others(w) /\ job'[w].pc = pc
  <1>. DEFINE t == [Idle EXCEPT !.pc = pc, !.user.uid = uid, !.kind = kind]
  <1>0. [NoUser EXCEPT !.uid = uid] \in Users
    BY IdleJob DEF Users
  <1>1. t = [Idle EXCEPT !.pc = pc, !.user = [NoUser EXCEPT !.uid = uid], !.kind = kind]
    BY DEF Idle
  <1>2. t \in Jobs /\ t.pc = pc
    BY <1>0, <1>1, IdleJob DEF Jobs
  <1>3. job' = [job EXCEPT ![w] = t]
    BY DEF Send
  <1>. HIDE DEF t
  <1>. QED
    BY <1>2, <1>3 DEF Types, Others

-----------------------------------------------------------------------------
(* The rows of secret *)

LEMMA SecretRows ==
  ASSUME secret \in Seq(Secrets)
  PROVE  /\ Len(secret) \in Nat /\ DOMAIN secret = 1 .. Len(secret)
         /\ \A i \in DOMAIN secret : secret[i] \in Secrets
         /\ \A i \in DOMAIN secret : i \in Nat /\ i > 0
  BY LenProperties

\* One row is written.
LEMMA PutSecret ==
  ASSUME secret \in Seq(Secrets), NEW i \in DOMAIN secret, NEW x \in Secrets,
         secret' = [secret EXCEPT ![i] = x]
  PROVE  /\ secret' \in Seq(Secrets) /\ DOMAIN secret' = DOMAIN secret
         /\ secret'[i] = x
         /\ \A j \in DOMAIN secret : j # i => secret'[j] = secret[j]
  <1>1. i \in 1 .. Len(secret) /\ DOMAIN secret = 1 .. Len(secret)
    BY SecretRows
  <1>. QED
    BY <1>1, ExceptSeq

\* Every row is written.
LEMMA PutSecrets ==
  ASSUME secret \in Seq(Secrets), secret' = [i \in DOMAIN secret |-> secret'[i]],
         \A i \in DOMAIN secret : secret'[i] \in Secrets
  PROVE  secret' \in Seq(Secrets) /\ DOMAIN secret' = DOMAIN secret
  <1>1. Len(secret) \in Nat /\ DOMAIN secret = 1 .. Len(secret)
    BY SecretRows
  <1>2. secret' \in [1 .. Len(secret) -> Secrets]
    BY <1>1
  <1>. QED
    BY <1>1, <1>2, SeqDef

LEMMA AddSecret ==
  ASSUME secret \in Seq(Secrets), NEW x \in Secrets, secret' = Append(secret, x)
  PROVE  /\ secret' \in Seq(Secrets) /\ DOMAIN secret' = DOMAIN secret \cup {Len(secret) + 1}
         /\ secret'[Len(secret) + 1] = x
         /\ \A i \in DOMAIN secret : secret'[i] = secret[i]
  <1>1. Len(secret) \in Nat /\ DOMAIN secret = 1 .. Len(secret)
    BY SecretRows
  <1>2. /\ secret' \in Seq(Secrets) /\ Len(secret') = Len(secret) + 1
        /\ \A i \in 1 .. Len(secret) : secret'[i] = secret[i]
        /\ secret'[Len(secret) + 1] = x
    OBVIOUS
  <1>3. DOMAIN secret' = 1 .. (Len(secret) + 1)
    BY <1>2, LenProperties
  <1>. QED
    BY <1>1, <1>2, <1>3

-----------------------------------------------------------------------------
(* Types *)

\* The rows of secret before a step are there after it.
SecretsGrow == \A i \in DOMAIN secret : i \in DOMAIN secret'

\* The actions that leave secret alone, and the task of w at no secret or at its own.
LEMMA TypesOfOthers ==
  ASSUME Types, NEW w \in Workers, job' \in [Workers -> Jobs], Others(w),
         user' \in Users, uids' \in Nat, secret' \in Seq(Secrets), mailLog' \in Nat,
         sessions' \subseteq Sessions, resets' \in Nat, SecretsGrow,
         job'[w].pc \in {"mail", "spend"} => job'[w].secret \in DOMAIN secret'
  PROVE  Types'
  BY DEF Types, Others, SecretsGrow

LEMMA TypesStep == Types /\ [Next]_vars => Types'
  <1>. SUFFICES ASSUME Types, [Next]_vars PROVE Types'
    OBVIOUS
  <1>. USE DEF SecretsGrow
  <1>0. /\ user \in Users /\ uids \in Nat /\ secret \in Seq(Secrets) /\ mailLog \in Nat
        /\ sessions \subseteq Sessions /\ resets \in Nat /\ job \in [Workers -> Jobs]
        /\ "" \in Kinds /\ "code" \in Kinds /\ "reset" \in Kinds /\ "order" \in Kinds
    BY DEF Types, Kinds
  <1>n. /\ uids + 1 \in Nat /\ mailLog + 1 \in Nat /\ resets + 1 \in Nat
        /\ user.uid \in Nat /\ user.tv \in Nat /\ Len(secret) + 1 \in Nat
    <2>1. user.uid \in Nat /\ user.tv \in Nat
      BY <1>0 DEF Users
    <2>2. uids \in Nat /\ mailLog \in Nat /\ resets \in Nat /\ Len(secret) \in Nat
      BY <1>0, SecretRows
    <2>. QED
      BY <2>1, <2>2
  <1>1. CASE UNCHANGED vars
    BY <1>1 DEF vars, Types
  <1>2. ASSUME NEW w \in Workers, Register(w)
        PROVE  Types'
    <2>. DEFINE uid == IF user.exists THEN user.uid ELSE uids + 1
    <2>0. uid \in Nat
      BY <1>n
    <2>1. /\ uids' = Max({uids, uid})
          /\ Carry(w, "register", [NoUser EXCEPT !.exists = TRUE, !.uid = uid])
      BY <1>2 DEF Register
    <2>. HIDE DEF uid
    <2>2. [NoUser EXCEPT !.exists = TRUE, !.uid = uid] \in Users /\ "register" \in Pcs
      BY <2>0, IdleJob DEF Users, Pcs
    <2>3. job' \in [Workers -> Jobs] /\ Others(w) /\ job'[w].pc = "register"
      BY <2>1, <2>2, AfterCarry
    <2>4. uids' \in Nat
      BY <1>0, <2>0, <2>1, MaxOfTwo
    <2>. QED
      BY <1>0, <1>2, <2>3, <2>4, TypesOfOthers DEF Register
  <1>3. ASSUME NEW w \in Workers, SaveRegistration(w)
        PROVE  Types'
    <2>1. job[w].user \in Users /\ job[w].user.uid \in Nat
      BY <1>0 DEF Jobs, Users
    <2>2. user' \in Users
      <3>1. CASE user' = [job[w].user EXCEPT !.tv = IF user.exists THEN user.tv ELSE 0]
        BY <1>0, <2>1, <3>1 DEF Users
      <3>. QED
        BY <1>0, <1>3, <3>1 DEF SaveRegistration
    <2>3. job' \in [Workers -> Jobs] /\ Others(w) /\ job'[w].pc \in {"idle", "latest"}
      <3>1. "latest" \in Pcs
        BY DEF Pcs
      <3>. QED
        BY <1>0, <1>3, <2>1, <3>1, AfterEnd, AfterSend DEF SaveRegistration
    <2>. QED
      BY <1>0, <1>3, <2>2, <2>3, TypesOfOthers DEF SaveRegistration
  <1>4. ASSUME NEW w \in Workers,
               Login(w) \/ RequestLoginCode(w) \/ RequestPasswordReset(w) \/ NotifyOrder(w)
        PROVE  Types'
    <2>1. user.uid \in Nat /\ "latest" \in Pcs /\ "allow" \in Pcs /\ "sign" \in Pcs
      BY <1>0 DEF Users, Pcs
    <2>2. job' \in [Workers -> Jobs] /\ Others(w) /\ job'[w].pc \in {"latest", "allow", "sign"}
      BY <1>0, <1>4, <2>1, AfterCarry, AfterSend
         DEF Login, RequestLoginCode, RequestPasswordReset, NotifyOrder
    <2>. QED
      BY <1>0, <1>4, <2>2, TypesOfOthers
         DEF Login, RequestLoginCode, RequestPasswordReset, NotifyOrder
  <1>5. ASSUME NEW w \in Workers, ReadLatest(w) \/ Allow(w) \/ InsertLog(w)
        PROVE  Types'
    <2>1. PICK pc \in {"idle", "allow", "log", "replace"} :
            IF pc = "idle" THEN End(w) ELSE Goto(w, pc)
      BY <1>5 DEF ReadLatest, Allow, InsertLog
    <2>2. pc \in Pcs
      BY DEF Pcs
    <2>3. job' \in [Workers -> Jobs] /\ Others(w) /\ job'[w].pc = pc
      BY <2>1, <2>2, AfterEnd, AfterGoto
    <2>4. UNCHANGED <<user, uids, secret, sessions, resets>> /\ mailLog' \in {mailLog, mailLog + 1}
      BY <1>5 DEF ReadLatest, Allow, InsertLog
    <2>5. mailLog' \in Nat
      BY <1>0, <1>n, <2>4
    <2>. QED
      BY <1>0, <2>3, <2>4, <2>5, TypesOfOthers
  <1>6. ASSUME NEW w \in Workers, Replace(w) \/ SpendTokens(w)
        PROVE  Types'
    <2>1. \A i \in DOMAIN secret : [secret[i] EXCEPT !.used = TRUE] \in Secrets
      BY <1>0, SecretRows DEF Secrets
    <2>2. secret' \in Seq(Secrets) /\ DOMAIN secret' = DOMAIN secret
      <3>1. /\ secret' = [i \in DOMAIN secret |-> secret'[i]]
            /\ \A i \in DOMAIN secret : secret'[i] \in {secret[i], [secret[i] EXCEPT !.used = TRUE]}
        BY <1>6 DEF Replace, SpendTokens
      <3>. QED
        BY <1>0, <2>1, <3>1, SecretRows, PutSecrets
    <2>3. "save" \in Pcs
      BY DEF Pcs
    <2>4. job' \in [Workers -> Jobs] /\ Others(w) /\ job'[w].pc \in {"save", "idle"}
      BY <1>6, <2>3, AfterEnd, AfterGoto DEF Replace, SpendTokens
    <2>. QED
      BY <1>0, <1>6, <2>2, <2>4, TypesOfOthers DEF Replace, SpendTokens
  <1>7. ASSUME NEW w \in Workers, SaveSecret(w)
        PROVE  Types'
    <2>1. CASE End(w) /\ UNCHANGED secret
      BY <1>0, <1>7, <2>1, AfterEnd, TypesOfOthers DEF SaveSecret
    <2>2. CASE /\ secret' = Append(secret, Issue(user.uid, job[w].kind))
               /\ job' = [job EXCEPT ![w].pc = "mail", ![w].secret = Len(secret) + 1]
      <3>1. Issue(user.uid, job[w].kind) \in Secrets
        BY <1>0 DEF Issue, Secrets, Users, Jobs
      <3>2. secret' \in Seq(Secrets) /\ Len(secret) + 1 \in DOMAIN secret' /\ SecretsGrow
        BY <1>0, <2>2, <3>1, AddSecret
      <3>3. [job[w] EXCEPT !.pc = "mail", !.secret = Len(secret) + 1] \in Jobs
        <4>1. job[w] \in Jobs /\ Len(secret) + 1 \in Nat /\ "mail" \in Pcs
          BY <1>0, <1>n DEF Pcs
        <4>. QED
          BY <4>1 DEF Jobs
      <3>4. job' = [job EXCEPT ![w] = [job[w] EXCEPT !.pc = "mail", !.secret = Len(secret) + 1]]
        BY <1>0, <2>2
      <3>5. job' \in [Workers -> Jobs] /\ Others(w) /\ job'[w].secret = Len(secret) + 1
        BY <1>0, <3>3, <3>4 DEF Others, Jobs
      <3>6. job'[w].secret \in DOMAIN secret'
        BY <3>2, <3>5
      <3>. QED
        BY <1>0, <1>7, <3>2, <3>5, <3>6, TypesOfOthers DEF SaveSecret
    <2>. QED
      BY <1>7, <2>1, <2>2 DEF SaveSecret
  <1>8. ASSUME NEW w \in Workers, SendSecret(w) \/ SendFails(w)
        PROVE  Types'
    <2>1. job[w].secret \in DOMAIN secret
      BY <1>8 DEF Types, SendSecret, SendFails, At
    <2>2. secret[job[w].secret] \in Secrets
      BY <1>0, <2>1, SecretRows
    <2>3. /\ [secret[job[w].secret] EXCEPT !.mailed = TRUE] \in Secrets
          /\ [secret[job[w].secret] EXCEPT !.used = TRUE, !.attempts = 0] \in Secrets
          /\ [secret[job[w].secret] EXCEPT !.deleted = TRUE] \in Secrets
      BY <2>2 DEF Secrets
    <2>4. PICK x \in Secrets : secret' = [secret EXCEPT ![job[w].secret] = x]
      <3>1. CASE SendSecret(w)
        BY <2>3, <3>1 DEF SendSecret
      <3>2. CASE secret' = [secret EXCEPT ![job[w].secret].used = TRUE,
                                          ![job[w].secret].attempts = 0]
        <4>1. secret' = [secret EXCEPT ![job[w].secret] =
                           [secret[job[w].secret] EXCEPT !.used = TRUE, !.attempts = 0]]
          BY <1>0, <2>1, <3>2
        <4>. QED
          BY <2>3, <4>1
      <3>3. CASE secret' = [secret EXCEPT ![job[w].secret].deleted = TRUE]
        BY <2>3, <3>3
      <3>. QED
        BY <1>8, <3>1, <3>2, <3>3 DEF SendFails
    <2>5. secret' \in Seq(Secrets) /\ DOMAIN secret' = DOMAIN secret
      BY <1>0, <2>1, <2>4, PutSecret
    <2>6. job' \in [Workers -> Jobs] /\ Others(w) /\ job'[w].pc = "idle"
      BY <1>8, AfterEnd DEF SendSecret, SendFails
    <2>. QED
      BY <1>0, <1>8, <2>5, <2>6, TypesOfOthers DEF SendSecret, SendFails
  <1>9. ASSUME NEW w \in Workers, NEW right \in BOOLEAN, VerifyLoginCode(w, right)
        PROVE  Types'
    <2>. DEFINE newest == Max(Candidates)
                t == [Idle EXCEPT !.pc = "spend", !.user = user, !.read = user,
                        !.secret = newest, !.attempts = secret[newest].attempts,
                        !.right = right, !.since = resets]
    <2>1. Candidates \subseteq 1 .. Len(secret) /\ Len(secret) \in Nat /\ Candidates # {}
      BY <1>0, <1>9, SecretRows DEF Candidates, Of, VerifyLoginCode
    <2>2. newest \in DOMAIN secret
      BY <1>0, <2>1, SecretRows, MaxOfSome
    <2>. HIDE DEF newest
    <2>3. secret[newest].attempts \in Nat /\ newest \in Nat
      BY <1>0, <2>2, SecretRows DEF Secrets
    <2>4. t \in Jobs /\ t.pc = "spend" /\ t.secret = newest
      BY <1>0, <2>3, IdleJob DEF Jobs, Pcs
    <2>5. job' = [job EXCEPT ![w] = t]
      BY <1>9 DEF VerifyLoginCode, newest
    <2>. HIDE DEF t
    <2>6. job' \in [Workers -> Jobs] /\ Others(w) /\ job'[w] = t
      BY <1>0, <2>4, <2>5 DEF Others
    <2>. QED
      BY <1>0, <1>9, <2>2, <2>4, <2>6, TypesOfOthers DEF VerifyLoginCode
  <1>10. ASSUME NEW w \in Workers, SpendCode(w)
         PROVE  Types'
    <2>. DEFINE s == job[w].secret
                x == [secret[s] EXCEPT !.attempts = job[w].attempts + 1, !.used = Spent(w),
                        !.tries = @ + 1, !.wins = @ + (IF job[w].right THEN 1 ELSE 0)]
    <2>1. s \in DOMAIN secret
      BY <1>10 DEF Types, SpendCode, At
    <2>2. secret[s] \in Secrets /\ job[w].attempts \in Nat
      BY <1>0, <2>1, SecretRows DEF Jobs
    <2>3. Spent(w) \in BOOLEAN
      BY <1>0 DEF Spent, Jobs
    <2>4. x \in Secrets
      <3>1. /\ job[w].attempts + 1 \in Nat /\ secret[s].tries + 1 \in Nat
            /\ secret[s].wins + (IF job[w].right THEN 1 ELSE 0) \in Nat
        BY <2>2 DEF Secrets
      <3>. QED
        BY <2>2, <2>3, <3>1 DEF Secrets
    <2>5. secret' = [secret EXCEPT ![s] = x]
      BY <1>0, <1>10, <2>1 DEF SpendCode
    <2>. HIDE DEF x, s
    <2>6. secret' \in Seq(Secrets) /\ DOMAIN secret' = DOMAIN secret
      BY <1>0, <2>1, <2>4, <2>5, PutSecret
    <2>7. "sign" \in Pcs /\ "verify" \in Pcs
      BY DEF Pcs
    <2>8. job' \in [Workers -> Jobs] /\ Others(w) /\ job'[w].pc \in {"sign", "verify", "idle"}
      BY <1>10, <2>7, AfterGoto, AfterEnd DEF SpendCode
    <2>. QED
      BY <1>0, <1>10, <2>6, <2>8, TypesOfOthers DEF SpendCode
  <1>11. ASSUME NEW w \in Workers, SaveVerified(w) \/ SaveReset(w)
         PROVE  Types'
    <2>1. job[w].user \in Users
      BY <1>0 DEF Jobs
    <2>2. user' \in Users /\ resets' \in Nat
      <3>0. job[w].user.tv \in Nat
        BY <2>1 DEF Users
      <3>1. job[w].user.tv + 1 \in Nat
        BY <3>0
      <3>2. /\ [job[w].user EXCEPT !.verified = TRUE] \in Users
            /\ [job[w].user EXCEPT !.verified = TRUE, !.tv = @ + 1] \in Users
        BY <2>1, <3>1 DEF Users
      <3>. QED
        BY <1>0, <1>n, <1>11, <3>2 DEF SaveVerified, SaveReset
    <2>3. "sign" \in Pcs /\ "spendAll" \in Pcs
      BY DEF Pcs
    <2>4. job' \in [Workers -> Jobs] /\ Others(w) /\ job'[w].pc \in {"sign", "spendAll"}
      BY <1>11, <2>3, AfterGoto DEF SaveVerified, SaveReset
    <2>. QED
      BY <1>0, <1>11, <2>2, <2>4, TypesOfOthers DEF SaveVerified, SaveReset
  <1>12. ASSUME NEW w \in Workers, Sign(w)
         PROVE  Types'
    <2>1. job[w].user \in Users /\ job[w].since \in Nat
      BY <1>0 DEF Jobs
    <2>2. sessions' \subseteq Sessions
      <3>1. [uid |-> job[w].user.uid, tv |-> job[w].user.tv, since |-> job[w].since] \in Sessions
        BY <2>1 DEF Users, Sessions
      <3>. QED
        BY <1>0, <1>12, <3>1 DEF Sign
    <2>. QED
      BY <1>0, <1>12, <2>2, AfterEnd, TypesOfOthers DEF Sign
  <1>13. ASSUME NEW w \in Workers, NEW t \in DOMAIN secret, ConfirmPasswordReset(w, t)
         PROVE  Types'
    <2>1. "reset" \in Pcs
      BY DEF Pcs
    <2>. QED
      BY <1>0, <1>13, <2>1, AfterCarry, TypesOfOthers DEF ConfirmPasswordReset
  <1>14. CASE Delete
    <2>1. \A i \in DOMAIN secret : [secret[i] EXCEPT !.deleted = TRUE] \in Secrets
      BY <1>0, SecretRows DEF Secrets
    <2>2. secret' \in Seq(Secrets) /\ DOMAIN secret' = DOMAIN secret
      <3>1. /\ secret' = [i \in DOMAIN secret |-> secret'[i]]
            /\ \A i \in DOMAIN secret :
                 secret'[i] \in {secret[i], [secret[i] EXCEPT !.deleted = TRUE]}
        BY <1>14 DEF Delete
      <3>. QED
        BY <1>0, <2>1, <3>1, SecretRows, PutSecrets
    <2>3. user' \in Users
      BY <1>14, IdleJob DEF Delete
    <2>. QED
      BY <1>0, <1>14, <2>2, <2>3 DEF Delete, Types
  <1>15. ASSUME NEW i \in DOMAIN secret, Grow(i)
         PROVE  Types'
    <2>1. [secret[i] EXCEPT !.age = Older(@)] \in Secrets
      BY <1>0, SecretRows DEF Secrets, Older
    <2>2. secret' \in Seq(Secrets) /\ DOMAIN secret' = DOMAIN secret
      BY <1>0, <1>15, <2>1, PutSecret DEF Grow
    <2>. QED
      <3>1. UNCHANGED <<user, uids, mailLog, sessions, resets, job>>
        BY <1>15 DEF Grow
      <3>2. \A w \in Workers : job'[w].pc \in {"mail", "spend"} => job'[w].secret \in DOMAIN secret'
        BY <2>2, <3>1 DEF Types
      <3>. QED
        BY <1>0, <2>2, <3>1, <3>2 DEF Types
  <1>16. CASE HourPasses
    <2>1. mailLog' \in Nat
      <3>1. mailLog \in Nat
        BY <1>0
      <3>. QED
        BY <1>16, <3>1 DEF HourPasses
    <2>. QED
      BY <1>16, <2>1 DEF HourPasses, Types
  <1>. QED
    BY <1>1, <1>2, <1>3, <1>4, <1>5, <1>6, <1>7, <1>8, <1>9, <1>10, <1>11, <1>12, <1>13, <1>14,
       <1>15, <1>16 DEF Next

-----------------------------------------------------------------------------
(* The quota *)

Logging == {w \in Workers : At(w, "log")}

LEMMA LoggingIsFinite ==
  /\ IsFiniteSet(Workers) /\ Cardinality(Workers) \in Nat
  /\ IsFiniteSet(Logging) /\ Cardinality(Logging) \in Nat
  /\ Cardinality(Logging) <= Cardinality(Workers)
  BY AccountsAssumption, FS_Subset, FS_CardinalityType DEF Logging

LEMMA QuotaKept ==
  ASSUME QuotaHolds, mailLog \in Nat, mailLog' \in Nat, mailLog' <= mailLog,
         Logging' \subseteq Logging
  PROVE  QuotaHolds'
  <1>1. Cardinality(Logging') \in Nat /\ Cardinality(Logging') <= Cardinality(Logging)
    BY LoggingIsFinite, FS_Subset, FS_CardinalityType
  <1>2. PerHour \in Nat
    BY AccountsAssumption
  <1>3. mailLog + Cardinality(Logging) <= PerHour + Cardinality(Workers) - 1
    BY DEF QuotaHolds, Logging
  <1>4. mailLog' + Cardinality(Logging') <= PerHour + Cardinality(Workers) - 1
    BY <1>1, <1>2, <1>3, LoggingIsFinite
  <1>. QED
    BY <1>4 DEF QuotaHolds, Logging

\* A request that does not reach the insert of the log.
LEMMA QuotaElsewhere ==
  ASSUME Types, QuotaHolds, NEW w \in Workers, Others(w), UNCHANGED mailLog,
         job'[w].pc # "log"
  PROVE  QuotaHolds'
  <1>1. Logging' \subseteq Logging
    BY DEF Logging, At, Others
  <1>2. mailLog \in Nat
    BY DEF Types
  <1>3. mailLog' \in Nat /\ mailLog' <= mailLog
    BY <1>2
  <1>. QED
    BY <1>1, <1>2, <1>3, QuotaKept

LEMMA QuotaAllow ==
  ASSUME Types, QuotaHolds, NEW w \in Workers, Allow(w)
  PROVE  QuotaHolds'
  <1>1. "log" \in Pcs
    BY DEF Pcs
  <1>2. CASE End(w)
    BY <1>2, AfterEnd, QuotaElsewhere DEF Allow
  <1>3. CASE mailLog < PerHour /\ Goto(w, "log")
    <2>1. IsFiniteSet(Logging') /\ Cardinality(Logging') <= Cardinality(Workers)
            /\ Cardinality(Logging') \in Nat
      BY AccountsAssumption, FS_Subset, FS_CardinalityType DEF Logging
    <2>2. mailLog \in Nat /\ PerHour \in Nat /\ mailLog' = mailLog
      BY AccountsAssumption DEF Types, Allow
    <2>3. mailLog' + Cardinality(Logging') <= PerHour + Cardinality(Workers) - 1
      BY <1>3, <2>1, <2>2, LoggingIsFinite
    <2>. QED
      BY <2>3 DEF QuotaHolds, Logging
  <1>4. mailLog \in Nat /\ PerHour \in Nat
    BY AccountsAssumption DEF Types
  <1>. QED
    BY <1>2, <1>3, <1>4 DEF Allow

LEMMA QuotaInsert ==
  ASSUME Types, QuotaHolds, NEW w \in Workers, InsertLog(w)
  PROVE  QuotaHolds'
  <1>1. Others(w) /\ job'[w].pc \in {"idle", "replace"}
    <2>1. "replace" \in Pcs
      BY DEF Pcs
    <2>. QED
      BY <2>1, AfterEnd, AfterGoto DEF InsertLog
  <1>2. w \in Logging /\ Logging' = Logging \ {w}
    BY <1>1 DEF Logging, InsertLog, At, Others
  <1>3. Cardinality(Logging') = Cardinality(Logging) - 1 /\ Cardinality(Logging') \in Nat
    BY <1>2, LoggingIsFinite, FS_RemoveElement, FS_CardinalityType
  <1>4. mailLog \in Nat /\ PerHour \in Nat /\ mailLog' = mailLog + 1
    BY AccountsAssumption DEF Types, InsertLog
  <1>5. mailLog + Cardinality(Logging) <= PerHour + Cardinality(Workers) - 1
    BY DEF QuotaHolds, Logging
  <1>6. mailLog' + Cardinality(Logging') <= PerHour + Cardinality(Workers) - 1
    BY <1>3, <1>4, <1>5, LoggingIsFinite
  <1>. QED
    BY <1>6 DEF QuotaHolds, Logging

LEMMA PcAfter ==
  ASSUME Types, NEW w \in Workers
  PROVE  /\ End(w) => Others(w) /\ job'[w].pc = "idle"
         /\ \A pc : Goto(w, pc) => Others(w) /\ job'[w].pc = pc
         /\ \A pc, row : Carry(w, pc, row) => Others(w) /\ job'[w].pc = pc
         /\ \A pc, uid, kind : Send(w, pc, uid, kind) => Others(w) /\ job'[w].pc = pc
  <1>0. job \in [Workers -> Jobs]
    BY DEF Types
  <1>1. ASSUME NEW x, job' = [job EXCEPT ![w] = x]
        PROVE  Others(w) /\ job'[w] = x
    BY <1>0, <1>1 DEF Others
  <1>2. End(w) => Others(w) /\ job'[w].pc = "idle"
    BY <1>1, IdleJob DEF End
  <1>3. ASSUME NEW pc, Goto(w, pc) PROVE Others(w) /\ job'[w].pc = pc
    BY <1>0, <1>3 DEF Goto, Others, Jobs
  <1>4. ASSUME NEW pc, NEW row, Carry(w, pc, row) PROVE Others(w) /\ job'[w].pc = pc
    <2>. DEFINE x == [Idle EXCEPT !.pc = pc, !.user = row, !.read = user, !.since = resets]
    <2>1. job' = [job EXCEPT ![w] = x] /\ x.pc = pc
      BY <1>4 DEF Carry, Idle
    <2>. HIDE DEF x
    <2>. QED
      BY <1>1, <2>1
  <1>5. ASSUME NEW pc, NEW uid, NEW kind, Send(w, pc, uid, kind)
        PROVE  Others(w) /\ job'[w].pc = pc
    <2>. DEFINE x == [Idle EXCEPT !.pc = pc, !.user.uid = uid, !.kind = kind]
    <2>1. job' = [job EXCEPT ![w] = x] /\ x.pc = pc
      BY <1>5 DEF Send, Idle
    <2>. HIDE DEF x
    <2>. QED
      BY <1>1, <2>1
  <1>. QED
    BY <1>2, <1>3, <1>4, <1>5

\* Where the other steps of a request lead.
LEMMA Elsewhere ==
  ASSUME Types, NEW w \in Workers,
         \/ Register(w) \/ SaveRegistration(w) \/ Login(w) \/ RequestLoginCode(w)
         \/ RequestPasswordReset(w) \/ NotifyOrder(w) \/ ReadLatest(w) \/ Replace(w)
         \/ SaveSecret(w) \/ SendSecret(w) \/ SendFails(w) \/ SpendCode(w) \/ SaveVerified(w)
         \/ Sign(w) \/ SaveReset(w) \/ SpendTokens(w)
         \/ (\E right \in BOOLEAN : VerifyLoginCode(w, right))
         \/ (\E t \in DOMAIN secret : ConfirmPasswordReset(w, t))
  PROVE  Others(w) /\ job'[w].pc # "log" /\ UNCHANGED mailLog
  <1>0. job \in [Workers -> Jobs]
    BY DEF Types
  <1>1. CASE Register(w) \/ SaveRegistration(w) \/ Login(w)
    BY <1>1, PcAfter DEF Register, SaveRegistration, Login
  <1>2. CASE RequestLoginCode(w) \/ RequestPasswordReset(w) \/ NotifyOrder(w)
    BY <1>2, PcAfter DEF RequestLoginCode, RequestPasswordReset, NotifyOrder
  <1>3. CASE ReadLatest(w) \/ Replace(w)
    BY <1>3, PcAfter DEF ReadLatest, Replace
  <1>8. CASE SaveSecret(w)
    <2>1. CASE End(w)
      BY <1>8, <2>1, PcAfter DEF SaveSecret
    <2>2. CASE job' = [job EXCEPT ![w].pc = "mail", ![w].secret = Len(secret) + 1]
      BY <1>0, <1>8, <2>2 DEF Others, Jobs, SaveSecret
    <2>. QED
      BY <1>8, <2>1, <2>2 DEF SaveSecret
  <1>4. CASE SendSecret(w) \/ SendFails(w) \/ SpendCode(w) \/ SaveVerified(w)
    <2>1. CASE SpendCode(w)
      <3>1. \E pc \in {"sign", "verify"} : End(w) \/ Goto(w, pc)
        BY <2>1 DEF SpendCode
      <3>2. Others(w) /\ job'[w].pc # "log"
        BY <3>1, PcAfter
      <3>. QED
        BY <2>1, <3>2 DEF SpendCode
    <2>. QED
      BY <1>4, <2>1, PcAfter DEF SendSecret, SendFails, SaveVerified
  <1>5. CASE Sign(w) \/ SaveReset(w) \/ SpendTokens(w)
    BY <1>5, PcAfter DEF Sign, SaveReset, SpendTokens
  <1>6. CASE \E right \in BOOLEAN : VerifyLoginCode(w, right)
    BY <1>0, <1>6 DEF Others, VerifyLoginCode, Idle
  <1>7. CASE \E t \in DOMAIN secret : ConfirmPasswordReset(w, t)
    BY <1>7, PcAfter DEF ConfirmPasswordReset
  <1>. QED
    BY <1>1, <1>2, <1>3, <1>4, <1>5, <1>6, <1>7, <1>8

LEMMA QuotaStep == Types /\ QuotaHolds /\ [Next]_vars => QuotaHolds'
  <1>. SUFFICES ASSUME Types, QuotaHolds, [Next]_vars PROVE QuotaHolds'
    OBVIOUS
  <1>1. CASE UNCHANGED <<mailLog, job>>
    BY <1>1 DEF QuotaHolds, At
  <1>2. CASE UNCHANGED vars \/ Delete \/ (\E i \in DOMAIN secret : Grow(i))
    BY <1>1, <1>2 DEF vars, Delete, Grow
  <1>3. CASE HourPasses
    <2>1. mailLog \in Nat
      BY DEF Types
    <2>2. mailLog' \in Nat /\ mailLog' <= mailLog /\ Logging' \subseteq Logging
      BY <1>3, <2>1 DEF HourPasses, Logging, At
    <2>. QED
      BY <2>1, <2>2, QuotaKept
  <1>. QED
    BY <1>2, <1>3, QuotaAllow, QuotaInsert, Elsewhere, QuotaElsewhere DEF Next

LEMMA StartsEmpty == Init => Types /\ QuotaHolds
  <1>. SUFFICES ASSUME Init PROVE Types /\ QuotaHolds
    OBVIOUS
  <1>1. Types
    BY IdleJob, EmptySeq DEF Init, Types
  <1>2. Logging = {}
    BY IdleJob DEF Init, Logging, At
  <1>3. Cardinality(Logging) = 0
    BY <1>2, FS_EmptySet
  <1>4. mailLog + Cardinality(Logging) <= PerHour + Cardinality(Workers) - 1
    BY <1>3, LoggingIsFinite, AccountsAssumption DEF Init
  <1>. QED
    BY <1>1, <1>4 DEF QuotaHolds, Logging

\* However many requests for an address are under way, its quota is exceeded by one
\* less than their number at most: in every schedule, fresh or not.
THEOREM QuotaHoldsAlways == Spec => []QuotaHolds
  BY StartsEmpty, TypesStep, QuotaStep, PTL DEF Spec

-----------------------------------------------------------------------------
(* The tries of a code, and the messages *)

\* A step that gives no answer and sends nothing: it may use up, delete or age rows.
QuietRows ==
    /\ DOMAIN secret' = DOMAIN secret
    /\ \A i \in DOMAIN secret :
        /\ secret'[i].tries = secret[i].tries /\ secret'[i].wins = secret[i].wins
        /\ secret'[i].uid = secret[i].uid
        /\ ~secret'[i].used => ~secret[i].used /\ secret'[i].attempts = secret[i].attempts
        /\ secret'[i].mailed = secret[i].mailed
        /\ ~secret'[i].deleted => ~secret[i].deleted
        /\ secret'[i].age # "expired" => secret[i].age # "expired"

LEMMA SameRowsAreQuiet == UNCHANGED secret => QuietRows
  BY DEF QuietRows

LEMMA UseUpIsQuiet ==
  ASSUME Types, (\E w \in Workers : Replace(w) \/ SpendTokens(w)) \/ Delete
  PROVE  QuietRows
  <1>1. \A i \in DOMAIN secret : secret[i] \in Secrets
    BY SecretRows DEF Types
  <1>2. DOMAIN secret' = DOMAIN secret
    BY DEF Replace, SpendTokens, Delete
  <1>3. \A i \in DOMAIN secret :
            secret'[i] \in {secret[i], [secret[i] EXCEPT !.used = TRUE],
                            [secret[i] EXCEPT !.deleted = TRUE]}
    BY DEF Replace, SpendTokens, Delete
  <1>4. ASSUME NEW x \in Secrets, NEW y \in {x, [x EXCEPT !.used = TRUE], [x EXCEPT !.deleted = TRUE]}
        PROVE  /\ y.tries = x.tries /\ y.wins = x.wins /\ y.uid = x.uid
               /\ ~y.used => ~x.used /\ y.attempts = x.attempts
               /\ y.mailed = x.mailed /\ (~y.deleted => ~x.deleted)
               /\ y.age # "expired" => x.age # "expired"
    BY DEF Secrets
  <1>5. ASSUME NEW i \in DOMAIN secret
        PROVE  /\ secret'[i].tries = secret[i].tries /\ secret'[i].wins = secret[i].wins
               /\ secret'[i].uid = secret[i].uid
               /\ ~secret'[i].used => ~secret[i].used /\ secret'[i].attempts = secret[i].attempts
               /\ secret'[i].mailed = secret[i].mailed
               /\ ~secret'[i].deleted => ~secret[i].deleted
               /\ secret'[i].age # "expired" => secret[i].age # "expired"
    <2>. DEFINE x == secret[i]
                y == secret'[i]
    <2>1. x \in Secrets /\ y \in {x, [x EXCEPT !.used = TRUE], [x EXCEPT !.deleted = TRUE]}
      BY <1>1, <1>3
    <2>. HIDE DEF x, y
    <2>2. /\ y.tries = x.tries /\ y.wins = x.wins /\ y.uid = x.uid
          /\ ~y.used => ~x.used /\ y.attempts = x.attempts
          /\ y.mailed = x.mailed /\ (~y.deleted => ~x.deleted)
          /\ y.age # "expired" => x.age # "expired"
      BY <1>4, <2>1
    <2>. QED
      BY <2>2 DEF x, y
  <1>. QED
    BY <1>2, <1>5 DEF QuietRows

LEMMA GrowIsQuiet ==
  ASSUME Types, NEW i \in DOMAIN secret, Grow(i)
  PROVE  QuietRows
  <1>1. secret[i] \in Secrets /\ secret \in Seq(Secrets)
    BY SecretRows DEF Types
  <1>. DEFINE x == [secret[i] EXCEPT !.age = Older(@)]
  <1>2. x \in Secrets /\ x.tries = secret[i].tries /\ x.wins = secret[i].wins
        /\ x.uid = secret[i].uid /\ x.used = secret[i].used /\ x.attempts = secret[i].attempts
        /\ x.mailed = secret[i].mailed /\ x.deleted = secret[i].deleted
    BY <1>1 DEF Secrets, Older
  <1>3. secret' = [secret EXCEPT ![i] = x] /\ secret[i].age # "expired"
    BY DEF Grow
  <1>. HIDE DEF x
  <1>4. DOMAIN secret' = DOMAIN secret /\ secret'[i] = x
        /\ \A j \in DOMAIN secret : j # i => secret'[j] = secret[j]
    BY <1>1, <1>2, <1>3, PutSecret
  <1>. QED
    BY <1>2, <1>3, <1>4 DEF QuietRows

\* Nobody stops sending, and an answer is being given to a code that has tries left.
LEMMA QuietKeeps ==
  ASSUME Types, Tries, AliveWasMailed, QuietRows,
         \A v \in Workers : At(v, "mail") => job'[v] = job[v],
         \A v \in Workers : job'[v].pc = "spend" => job'[v].attempts < MaxAttempts
  PROVE  Tries' /\ AliveWasMailed'
  <1>1. Tries'
    BY DEF Tries, QuietRows, At
  <1>2. ASSUME NEW i \in DOMAIN secret', Alive(i)', ~secret'[i].deleted, ~secret'[i].mailed
        PROVE  \E w \in Workers : At(w, "mail")' /\ job'[w].secret = i
    <2>1. i \in DOMAIN secret /\ Alive(i) /\ ~secret[i].deleted /\ ~secret[i].mailed
      BY <1>2 DEF QuietRows, Alive
    <2>. QED
      BY <2>1 DEF AliveWasMailed, At
  <1>. QED
    BY <1>1, <1>2 DEF AliveWasMailed

\* A request that is not sending, and neither answers nor saves a new row.
LEMMA QuietRequest ==
  ASSUME Types, Tries, AliveWasMailed, QuietRows, NEW w \in Workers, Others(w),
         ~At(w, "mail"), job'[w].pc = "spend" => job'[w].attempts < MaxAttempts
  PROVE  Tries' /\ AliveWasMailed'
  BY QuietKeeps DEF Others, Tries, At

\* The row that a request is at is written; the others stay.
LEMMA PutKeepsTries ==
  ASSUME Types, Tries, NEW w \in Workers, Others(w), job'[w].pc # "spend",
         NEW s \in DOMAIN secret, NEW x \in Secrets, secret' = [secret EXCEPT ![s] = x],
         ~x.used => x.attempts = x.tries /\ x.wins = 0,
         x.tries <= MaxAttempts, x.wins <= 1
  PROVE  Tries'
  <1>1. DOMAIN secret' = DOMAIN secret /\ secret'[s] = x
        /\ \A j \in DOMAIN secret : j # s => secret'[j] = secret[j]
    BY PutSecret DEF Types
  <1>. QED
    BY <1>1 DEF Tries, At, Others

LEMMA PutKeepsMail ==
  ASSUME Types, AliveWasMailed, NEW w \in Workers, Others(w),
         NEW s \in DOMAIN secret, NEW x \in Secrets, secret' = [secret EXCEPT ![s] = x],
         At(w, "mail") => job[w].secret = s,
         x.used \/ x.deleted \/ x.mailed
           \/ (~secret[s].used /\ ~secret[s].deleted /\ ~secret[s].mailed
                 /\ secret[s].age = x.age /\ ~At(w, "mail"))
  PROVE  AliveWasMailed'
  <1>1. DOMAIN secret' = DOMAIN secret /\ secret'[s] = x
        /\ \A j \in DOMAIN secret : j # s => secret'[j] = secret[j]
    BY PutSecret DEF Types
  <1>2. ASSUME NEW i \in DOMAIN secret', Alive(i)', ~secret'[i].deleted, ~secret'[i].mailed
        PROVE  \E v \in Workers : At(v, "mail")' /\ job'[v].secret = i
    <2>1. Alive(i) /\ ~secret[i].deleted /\ ~secret[i].mailed /\ (i = s => ~At(w, "mail"))
      BY <1>1, <1>2 DEF Alive
    <2>2. PICK v \in Workers : At(v, "mail") /\ job[v].secret = i
      BY <1>1, <2>1 DEF AliveWasMailed
    <2>3. v # w
      BY <2>1, <2>2
    <2>. QED
      BY <2>2, <2>3 DEF Others, At
  <1>. QED
    BY <1>2 DEF AliveWasMailed

\* The answer to a fresh code: one try more of those it had left.
LEMMA SpendKeeps ==
  ASSUME Types, Tries, AliveWasMailed, NEW w \in Workers, SpendCode(w), SavesAreFresh
  PROVE  Tries' /\ AliveWasMailed' /\ DOMAIN secret' = DOMAIN secret
         /\ \A i \in DOMAIN secret : secret'[i].uid = secret[i].uid
  <1>. DEFINE s == job[w].secret
              x == [secret[s] EXCEPT !.attempts = job[w].attempts + 1, !.used = Spent(w),
                      !.tries = @ + 1, !.wins = @ + (IF job[w].right THEN 1 ELSE 0)]
  <1>1. /\ s \in DOMAIN secret /\ secret[s] \in Secrets /\ job[w].pc = "spend"
        /\ job[w].attempts \in Nat /\ job[w].right \in BOOLEAN /\ secret \in Seq(Secrets)
    BY SecretRows DEF Types, SpendCode, At, Jobs
  <1>2. Others(w) /\ job'[w].pc \in {"sign", "verify", "idle"}
    <2>1. \E pc \in {"sign", "verify"} : End(w) \/ Goto(w, pc)
      BY DEF SpendCode
    <2>. QED
      BY <2>1, PcAfter
  <1>3. ~secret[s].used /\ secret[s].attempts = job[w].attempts
    BY <1>1, <1>2 DEF SavesAreFresh
  <1>4. /\ secret[s].tries = job[w].attempts /\ secret[s].wins = 0
        /\ job[w].attempts < MaxAttempts
    BY <1>1, <1>3 DEF Tries, At
  <1>5. /\ x.attempts = job[w].attempts + 1 /\ x.used = Spent(w)
        /\ x.tries = secret[s].tries + 1 /\ x.deleted = secret[s].deleted
        /\ x.wins = secret[s].wins + (IF job[w].right THEN 1 ELSE 0)
        /\ x.mailed = secret[s].mailed /\ x.age = secret[s].age /\ x.uid = secret[s].uid
    BY <1>1 DEF Secrets
  <1>6. Spent(w) \in BOOLEAN /\ (~Spent(w) => ~job[w].right)
    BY <1>1 DEF Spent
  <1>7. x \in Secrets
    <2>1. /\ job[w].attempts + 1 \in Nat /\ secret[s].tries + 1 \in Nat
          /\ secret[s].wins + (IF job[w].right THEN 1 ELSE 0) \in Nat
      <3>1. secret[s].tries \in Nat /\ secret[s].wins \in Nat
        BY <1>1 DEF Secrets
      <3>. HIDE DEF s
      <3>. QED
        BY <1>1, <3>1
    <2>. QED
      BY <1>1, <1>6, <2>1 DEF Secrets
  <1>8. secret' = [secret EXCEPT ![s] = x]
    BY <1>1 DEF SpendCode
  <1>. HIDE DEF x, s
  <1>9. x.tries <= MaxAttempts /\ x.wins <= 1 /\ (~x.used => x.attempts = x.tries /\ x.wins = 0)
    BY <1>1, <1>4, <1>5, <1>6, AccountsAssumption
  <1>10. Tries'
    BY <1>1, <1>2, <1>7, <1>8, <1>9, PutKeepsTries
  <1>11. AliveWasMailed'
    <2>1. x.used \/ x.deleted \/ x.mailed
            \/ (~secret[s].used /\ ~secret[s].deleted /\ ~secret[s].mailed
                  /\ secret[s].age = x.age /\ ~At(w, "mail"))
      BY <1>1, <1>3, <1>5 DEF At
    <2>. QED
      BY <1>1, <1>2, <1>7, <1>8, <2>1, PutKeepsMail DEF At
  <1>. QED
    BY <1>1, <1>5, <1>7, <1>8, <1>10, <1>11, PutSecret

\* A message that was sent, or failed.
LEMMA SendKeeps ==
  ASSUME Types, Tries, AliveWasMailed, NEW w \in Workers, SendSecret(w) \/ SendFails(w)
  PROVE  Tries' /\ AliveWasMailed' /\ DOMAIN secret' = DOMAIN secret
         /\ \A i \in DOMAIN secret : secret'[i].uid = secret[i].uid
  <1>. DEFINE s == job[w].secret
  <1>1. s \in DOMAIN secret /\ secret[s] \in Secrets /\ secret \in Seq(Secrets)
    BY SecretRows DEF Types, SendSecret, SendFails, At
  <1>2. Others(w) /\ job'[w].pc = "idle"
    BY PcAfter DEF SendSecret, SendFails
  <1>3. PICK x \in {[secret[s] EXCEPT !.mailed = TRUE],
                    [secret[s] EXCEPT !.used = TRUE, !.attempts = 0],
                    [secret[s] EXCEPT !.deleted = TRUE]} : secret' = [secret EXCEPT ![s] = x]
    <2>1. CASE SendSecret(w)
      BY <2>1 DEF SendSecret
    <2>2. CASE secret' = [secret EXCEPT ![s].used = TRUE, ![s].attempts = 0]
      <3>1. secret' = [secret EXCEPT ![s] = [secret[s] EXCEPT !.used = TRUE, !.attempts = 0]]
        BY <1>1, <2>2
      <3>. QED
        BY <3>1
    <2>3. CASE secret' = [secret EXCEPT ![s].deleted = TRUE]
      BY <2>3
    <2>. QED
      BY <2>1, <2>2, <2>3 DEF SendFails
  <1>4. /\ x \in Secrets /\ x.tries = secret[s].tries /\ x.wins = secret[s].wins
        /\ x.uid = secret[s].uid /\ (x.used \/ x.deleted \/ x.mailed)
        /\ ~x.used => ~secret[s].used /\ x.attempts = secret[s].attempts
    <2>. DEFINE y == secret[s]
    <2>1. /\ y \in Secrets
          /\ x \in {[y EXCEPT !.mailed = TRUE], [y EXCEPT !.used = TRUE, !.attempts = 0],
                    [y EXCEPT !.deleted = TRUE]}
      BY <1>1, <1>3
    <2>. HIDE DEF y
    <2>2. x = [y EXCEPT !.mailed = TRUE] \/ x = [y EXCEPT !.used = TRUE, !.attempts = 0]
            \/ x = [y EXCEPT !.deleted = TRUE]
      BY <2>1
    <2>3. /\ x \in Secrets /\ x.tries = y.tries /\ x.wins = y.wins
          /\ x.uid = y.uid /\ (x.used \/ x.deleted \/ x.mailed)
          /\ ~x.used => ~y.used /\ x.attempts = y.attempts
      <3>1. CASE x = [y EXCEPT !.mailed = TRUE]
        BY <2>1, <3>1 DEF Secrets
      <3>2. CASE x = [y EXCEPT !.used = TRUE, !.attempts = 0]
        BY <2>1, <3>2 DEF Secrets
      <3>3. CASE x = [y EXCEPT !.deleted = TRUE]
        BY <2>1, <3>3 DEF Secrets
      <3>. QED
        BY <2>2, <3>1, <3>2, <3>3
    <2>. QED
      BY <2>3 DEF y
  <1>5. /\ ~x.used => x.attempts = x.tries /\ x.wins = 0
        /\ x.tries <= MaxAttempts /\ x.wins <= 1
    BY <1>1, <1>4 DEF Tries
  <1>6. secret' = [secret EXCEPT ![s] = x]
    BY <1>3
  <1>7. Tries' /\ AliveWasMailed'
    BY <1>1, <1>2, <1>4, <1>5, <1>6, PutKeepsTries, PutKeepsMail
  <1>. QED
    BY <1>1, <1>4, <1>6, <1>7, PutSecret

\* A new row, and the request that sends it.
LEMMA SaveSecretKeeps ==
  ASSUME Types, Tries, AliveWasMailed, NEW w \in Workers, SaveSecret(w)
  PROVE  Tries' /\ AliveWasMailed'
  <1>1. job[w].pc = "save" /\ job \in [Workers -> Jobs] /\ secret \in Seq(Secrets)
    BY DEF SaveSecret, At, Types
  <1>2. CASE End(w) /\ UNCHANGED secret
    BY <1>1, <1>2, PcAfter, QuietRequest, SameRowsAreQuiet DEF At
  <1>3. CASE /\ secret' = Append(secret, Issue(user.uid, job[w].kind))
             /\ job' = [job EXCEPT ![w].pc = "mail", ![w].secret = Len(secret) + 1]
    <2>. DEFINE x == Issue(user.uid, job[w].kind)
                n == Len(secret) + 1
    <2>1. x \in Secrets /\ x.attempts = 0 /\ x.tries = 0 /\ x.wins = 0
      BY <1>1 DEF Issue, Secrets, Types, Users, Jobs
    <2>2. secret' = Append(secret, x) /\ Len(secret) + 1 = n
      BY <1>3
    <2>3. Others(w) /\ job'[w].pc = "mail" /\ job'[w].secret = n
      BY <1>1, <1>3 DEF Others, Jobs
    <2>. HIDE DEF x, n
    <2>4. /\ DOMAIN secret' = DOMAIN secret \cup {n} /\ secret'[n] = x
          /\ \A i \in DOMAIN secret : secret'[i] = secret[i]
      BY <1>1, <2>1, <2>2, AddSecret
    <2>5. Tries'
      BY <2>1, <2>3, <2>4, AccountsAssumption DEF Tries, Others, At
    <2>6. ASSUME NEW i \in DOMAIN secret', Alive(i)', ~secret'[i].deleted, ~secret'[i].mailed
          PROVE  \E v \in Workers : At(v, "mail")' /\ job'[v].secret = i
      <3>1. CASE i = n
        BY <2>3, <3>1 DEF At
      <3>2. CASE i # n
        <4>1. i \in DOMAIN secret /\ Alive(i) /\ ~secret[i].deleted /\ ~secret[i].mailed
          BY <2>4, <2>6, <3>2 DEF Alive
        <4>2. PICK v \in Workers : At(v, "mail") /\ job[v].secret = i
          BY <4>1 DEF AliveWasMailed
        <4>3. v # w
          BY <1>1, <4>2 DEF At
        <4>. QED
          BY <2>3, <4>2, <4>3 DEF Others, At
      <3>. QED
        BY <3>1, <3>2
    <2>. QED
      BY <2>5, <2>6 DEF AliveWasMailed
  <1>. QED
    BY <1>2, <1>3 DEF SaveSecret

-----------------------------------------------------------------------------
(* The account, the cookies and the copies of its row *)

AccountOk == Versions /\ NewAccounts

accountVars == <<user, uids, sessions, resets>>

RowsOfUsers == \A i \in DOMAIN secret : secret[i].uid > 0

LEMMA QuietRowsOfUsers == QuietRows /\ RowsOfUsers => RowsOfUsers'
  BY DEF QuietRows, RowsOfUsers

\* A request that carries no copy afterwards.
LEMMA AccountStays ==
  ASSUME Types, AccountOk, RowsOfUsers', NEW w \in Workers, Others(w), UNCHANGED accountVars,
         ~Carrying(w)', job'[w].pc # "register"
  PROVE  AccountOk'
  BY DEF AccountOk, Versions, NewAccounts, Others, accountVars, Carrying, At, RowsOfUsers

\* A request that takes a copy of the row as it is.
LEMMA CopyTaken ==
  ASSUME Types, AccountOk, RowsOfUsers', NEW w \in Workers, Others(w), UNCHANGED accountVars,
         user.exists, Carrying(w)', job'[w].user = user, job'[w].read = user,
         job'[w].since = resets
  PROVE  AccountOk'
  <1>1. user.uid \in 1 .. uids /\ user.tv \in Nat
    BY DEF AccountOk, Versions, Types, Users
  <1>2. Versions'
    BY <1>1 DEF AccountOk, Versions, Others, accountVars, Carrying, At, RowsOfUsers
  <1>3. NewAccounts'
    BY <1>1 DEF AccountOk, NewAccounts, Others, accountVars, Carrying, At
  <1>. QED
    BY <1>2, <1>3 DEF AccountOk

\* A request that goes on with the copy it has.
LEMMA CopyKept ==
  ASSUME Types, AccountOk, RowsOfUsers', NEW w \in Workers, Others(w), UNCHANGED accountVars,
         At(w, "spend"), job'[w].pc \in {"verify", "sign"}, job'[w].user = job[w].user,
         job'[w].read = job[w].read, job'[w].since = job[w].since
  PROVE  AccountOk'
  <1>1. Versions'
    BY DEF AccountOk, Versions, Others, accountVars, Carrying, At, RowsOfUsers
  <1>2. NewAccounts'
    BY DEF AccountOk, NewAccounts, Others, accountVars, Carrying, At
  <1>. QED
    BY <1>1, <1>2 DEF AccountOk

LEMMA RegisterKeeps ==
  ASSUME Types, AccountOk, NEW w \in Workers, Register(w)
  PROVE  AccountOk'
  <1>. DEFINE uid == IF user.exists THEN user.uid ELSE uids + 1
              row == [NoUser EXCEPT !.exists = TRUE, !.uid = uid]
  <1>1. uids \in Nat /\ user.exists \in BOOLEAN /\ (user.exists => user.uid \in 1 .. uids)
    BY DEF Types, Users, AccountOk, Versions
  <1>2. uid \in Nat /\ uid \in 1 .. uid /\ "register" \in Pcs
    BY <1>1 DEF Pcs
  <1>3. row \in Users /\ row.exists /\ row.uid = uid
    BY <1>2 DEF NoUser, Users
  <1>4. uids' = Max({uids, uid}) /\ Carry(w, "register", row) /\ UNCHANGED <<user, secret, sessions, resets>>
    BY DEF Register
  <1>5. uids' \in Nat /\ uids' >= uids /\ uids' >= uid
    BY <1>1, <1>2, <1>4, MaxOfTwo
  <1>6. ~user.exists => uid = uids + 1
    OBVIOUS
  <1>7. user.exists => uid = user.uid
    OBVIOUS
  <1>. HIDE DEF uid, row
  <1>8. Others(w) /\ job'[w].pc = "register" /\ job'[w].user = row /\ job'[w].read = user
    BY <1>2, <1>3, <1>4, AfterCarry
  <1>9. Versions'
    <2>1. \A x \in 1 .. uids : x \in 1 .. uids'
      BY <1>1, <1>5
    <2>2. \A v \in Workers : Carrying(v)' => Carrying(v) /\ job'[v] = job[v]
      BY <1>8 DEF Others, Carrying
    <2>3. /\ user'.exists => user'.uid \in 1 .. uids'
          /\ ~user'.exists => user' = NoUser
          /\ \A i \in DOMAIN secret' : secret'[i].uid > 0
      BY <1>4, <2>1 DEF AccountOk, Versions
    <2>4. \A s \in sessions' :
            /\ s.uid \in 1 .. uids'
            /\ user'.exists /\ s.uid = user'.uid =>
                  s.tv <= user'.tv /\ (s.tv = user'.tv => s.since = resets')
      BY <1>4, <2>1 DEF AccountOk, Versions
    <2>5. \A v \in Workers : Carrying(v)' =>
            /\ job'[v].user = job'[v].read \/ At(v, "sign")'
            /\ job'[v].user.exists /\ job'[v].user.uid \in 1 .. uids'
            /\ user'.exists /\ job'[v].user.uid = user'.uid =>
                  job'[v].user.tv <= user'.tv /\ (job'[v].user.tv = user'.tv => job'[v].since = resets')
      BY <1>4, <2>1, <2>2 DEF AccountOk, Versions, At
    <2>. QED
      BY <2>3, <2>4, <2>5 DEF Versions
  <1>10. ASSUME NEW v \in Workers, At(v, "register")'
         PROVE  /\ job'[v].user.exists /\ job'[v].user.uid \in 1 .. uids'
                /\ job'[v].read.exists => job'[v].user.uid = job'[v].read.uid
                /\ ~job'[v].read.exists =>
                     /\ user'.exists => user'.uid # job'[v].user.uid
                     /\ \A s \in sessions' : s.uid # job'[v].user.uid
                     /\ \A u \in Workers \ {v} :
                          Carrying(u)' \/ At(u, "register")' => job'[u].user.uid # job'[v].user.uid
    <2>1. CASE v = w
      <3>1. job'[v].user.exists /\ job'[v].user.uid \in 1 .. uids'
        BY <1>2, <1>3, <1>5, <1>8, <2>1
      <3>2. job'[v].read.exists => job'[v].user.uid = job'[v].read.uid
        BY <1>3, <1>7, <1>8, <2>1
      <3>3. ASSUME ~user.exists
            PROVE  /\ \A s \in sessions : s.uid # uid
                   /\ \A u \in Workers \ {w} :
                        Carrying(u)' \/ At(u, "register")' => job'[u].user.uid # uid
        BY <1>1, <1>6, <1>8, <3>3 DEF AccountOk, Versions, NewAccounts, Others, Carrying, At
      <3>. QED
        BY <1>3, <1>4, <1>8, <2>1, <3>1, <3>2, <3>3
    <2>2. CASE v # w
      <3>1. job'[v] = job[v] /\ At(v, "register")
        BY <1>8, <1>10, <2>2 DEF Others, At
      <3>2. job[v].user.uid \in 1 .. uids
        BY <3>1 DEF AccountOk, NewAccounts
      <3>3. ASSUME ~job[v].read.exists PROVE uid # job[v].user.uid
        BY <1>1, <1>6, <1>7, <3>1, <3>2, <3>3 DEF AccountOk, NewAccounts
      <3>4. ASSUME ~job[v].read.exists, NEW u \in Workers \ {v},
                   Carrying(u)' \/ At(u, "register")'
            PROVE  job'[u].user.uid # job[v].user.uid
        <4>1. CASE u = w
          BY <1>3, <1>8, <3>3, <3>4, <4>1
        <4>2. CASE u # w
          BY <1>8, <3>1, <3>4, <4>2 DEF AccountOk, NewAccounts, Others, Carrying, At
        <4>. QED
          BY <4>1, <4>2
      <3>. QED
        BY <1>1, <1>4, <1>5, <3>1, <3>2, <3>4 DEF AccountOk, NewAccounts
    <2>. QED
      BY <2>1, <2>2
  <1>. QED
    BY <1>9, <1>10 DEF AccountOk, NewAccounts

LEMMA RegistrationKeeps ==
  ASSUME Types, AccountOk, NEW w \in Workers, SaveRegistration(w), SavesAreFresh
  PROVE  AccountOk'
  <1>. DEFINE row == job[w].user
  <1>1. At(w, "register") /\ Others(w) /\ job'[w].pc \in {"idle", "latest"} /\ RowsOfUsers'
        /\ UNCHANGED <<uids, sessions, resets>>
    BY PcAfter DEF SaveRegistration, AccountOk, Versions, RowsOfUsers
  <1>2. job[w].read = user /\ row \in Users /\ user \in Users
    BY <1>1 DEF SavesAreFresh, At, Types, Jobs
  <1>3. CASE UNCHANGED user
    BY <1>1, <1>3, AccountStays DEF Carrying, accountVars
  <1>4. CASE user' = [row EXCEPT !.tv = IF user.exists THEN user.tv ELSE 0]
    <2>1. user'.exists /\ user'.uid = row.uid /\ row.uid \in 1 .. uids
          /\ (user.exists => user'.tv = user.tv /\ row.uid = user.uid)
      BY <1>1, <1>2, <1>4 DEF AccountOk, NewAccounts, Users
    <2>2. Versions'
      <3>1. CASE user.exists
        BY <1>1, <2>1, <3>1 DEF AccountOk, Versions, Others, Carrying, At, RowsOfUsers
      <3>2. CASE ~user.exists
        <4>1. /\ \A s \in sessions : s.uid # row.uid
              /\ \A v \in Workers \ {w} : Carrying(v) => job[v].user.uid # row.uid
          BY <1>1, <1>2, <3>2 DEF AccountOk, NewAccounts
        <4>. QED
          BY <1>1, <2>1, <4>1 DEF AccountOk, Versions, Others, Carrying, At, RowsOfUsers
      <3>. QED
        BY <3>1, <3>2
    <2>3. NewAccounts'
      BY <1>1, <2>1 DEF AccountOk, NewAccounts, Others, Carrying, At
    <2>. QED
      BY <2>2, <2>3 DEF AccountOk
  <1>. QED
    BY <1>3, <1>4 DEF SaveRegistration

\* The row saved is the row there is, with verified set.
LEMMA VerifiedKeeps ==
  ASSUME Types, AccountOk, NEW w \in Workers, SaveVerified(w), SavesAreFresh
  PROVE  AccountOk'
  <1>1. "sign" \in Pcs
    BY DEF Pcs
  <1>2. /\ At(w, "verify") /\ Others(w) /\ job'[w].pc = "sign" /\ job'[w].user = job[w].user
        /\ job'[w].since = job[w].since /\ UNCHANGED <<uids, sessions, resets, secret>>
    BY <1>1, AfterGoto DEF SaveVerified
  <1>3. job[w].user = user /\ user.exists /\ user \in Users
    BY <1>2 DEF SavesAreFresh, At, Types, AccountOk, Versions, Carrying
  <1>4. user'.exists /\ user'.uid = user.uid /\ user'.tv = user.tv
    BY <1>3 DEF SaveVerified, Users
  <1>5. Versions'
    BY <1>2, <1>3, <1>4 DEF AccountOk, Versions, Others, Carrying, At
  <1>6. NewAccounts'
    BY <1>2, <1>3, <1>4 DEF AccountOk, NewAccounts, Others, Carrying, At
  <1>. QED
    BY <1>5, <1>6 DEF AccountOk

\* Cookies and copies of before are behind the tokenVersion of the reset.
LEMMA ResetKeeps ==
  ASSUME Types, AccountOk, NEW w \in Workers, SaveReset(w), SavesAreFresh
  PROVE  AccountOk'
  <1>1. "spendAll" \in Pcs
    BY DEF Pcs
  <1>2. /\ At(w, "reset") /\ Others(w) /\ job'[w].pc = "spendAll"
        /\ UNCHANGED <<uids, sessions, secret>> /\ resets' = resets + 1
    BY <1>1, AfterGoto DEF SaveReset
  <1>3. job[w].user = user /\ user.exists /\ user \in Users
    BY <1>2 DEF SavesAreFresh, At, Types, AccountOk, Versions, Carrying
  <1>4. user'.exists /\ user'.uid = user.uid /\ user'.tv = user.tv + 1 /\ user.tv \in Nat
    BY <1>3 DEF SaveReset, Users
  <1>5. /\ \A s \in sessions : s.tv \in Nat
        /\ \A v \in Workers : job[v].user.tv \in Nat
    BY DEF Types, Sessions, Jobs, Users
  <1>6. Versions'
    <2>1. ASSUME NEW s \in sessions
          PROVE  s.uid \in 1 .. uids /\ (s.uid = user'.uid => s.tv < user'.tv)
      BY <1>3, <1>4, <1>5 DEF AccountOk, Versions
    <2>2. ASSUME NEW v \in Workers, Carrying(v)'
          PROVE  /\ Carrying(v) /\ job'[v] = job[v]
                 /\ job[v].user.uid = user'.uid => job[v].user.tv < user'.tv
      <3>1. Carrying(v) /\ job'[v] = job[v]
        BY <1>2, <2>2 DEF Others, Carrying
      <3>. QED
        BY <1>3, <1>4, <1>5, <3>1 DEF AccountOk, Versions
    <2>3. \A s \in sessions : s.uid = user'.uid => s.tv <= user'.tv /\ s.tv # user'.tv
      BY <1>4, <1>5, <2>1
    <2>4. \A v \in Workers : Carrying(v)' /\ job[v].user.uid = user'.uid
                               => job[v].user.tv <= user'.tv /\ job[v].user.tv # user'.tv
      BY <1>4, <1>5, <2>2
    <2>. QED
      BY <1>2, <1>3, <1>4, <2>1, <2>2, <2>3, <2>4 DEF AccountOk, Versions, At
  <1>7. NewAccounts'
    BY <1>2, <1>3, <1>4 DEF AccountOk, NewAccounts, Others, Carrying, At
  <1>. QED
    BY <1>6, <1>7 DEF AccountOk

LEMMA SignKeeps ==
  ASSUME Types, AccountOk, NEW w \in Workers, Sign(w)
  PROVE  AccountOk'
  <1>. DEFINE c == [uid |-> job[w].user.uid, tv |-> job[w].user.tv, since |-> job[w].since]
  <1>1. /\ Carrying(w) /\ Others(w) /\ job'[w].pc = "idle"
        /\ UNCHANGED <<user, uids, resets, secret>> /\ sessions' = sessions \cup {c}
    BY PcAfter DEF Sign, Carrying, At
  <1>2. /\ c.uid = job[w].user.uid /\ c.tv = job[w].user.tv /\ c.since = job[w].since
    OBVIOUS
  <1>. HIDE DEF c
  <1>3. Versions'
    BY <1>1, <1>2 DEF AccountOk, Versions, Others, Carrying, At
  <1>4. NewAccounts'
    BY <1>1, <1>2 DEF AccountOk, NewAccounts, Others, Carrying, At
  <1>. QED
    BY <1>3, <1>4 DEF AccountOk

LEMMA DeleteKeeps ==
  ASSUME Types, AccountOk, Delete
  PROVE  AccountOk'
  <1>1. ~user'.exists /\ user' = NoUser /\ UNCHANGED <<uids, sessions, resets, job>>
    BY DEF Delete, NoUser
  <1>2. RowsOfUsers'
    <2>1. \A i \in DOMAIN secret : secret[i] \in Secrets
      BY SecretRows DEF Types
    <2>2. \A i \in DOMAIN secret : [secret[i] EXCEPT !.deleted = TRUE].uid = secret[i].uid
      BY <2>1 DEF Secrets
    <2>. QED
      BY <2>2 DEF Delete, RowsOfUsers, AccountOk, Versions
  <1>3. Versions'
    BY <1>1, <1>2 DEF AccountOk, Versions, Carrying, At, RowsOfUsers
  <1>4. NewAccounts'
    BY <1>1 DEF AccountOk, NewAccounts, Carrying, At
  <1>. QED
    BY <1>3, <1>4 DEF AccountOk

-----------------------------------------------------------------------------
(* The inductive invariant *)

\* Requests that change no row of the account and carry no copy of it.
LEMMA OtherRequests ==
  ASSUME Types, Tries, AliveWasMailed, AccountOk, NEW w \in Workers,
         \/ RequestLoginCode(w) \/ RequestPasswordReset(w) \/ NotifyOrder(w) \/ ReadLatest(w)
         \/ Allow(w) \/ InsertLog(w) \/ Replace(w) \/ SpendTokens(w)
  PROVE  Tries' /\ AliveWasMailed' /\ AccountOk'
  <1>1. QuietRows /\ UNCHANGED accountVars
    BY SameRowsAreQuiet, UseUpIsQuiet
       DEF RequestLoginCode, RequestPasswordReset, NotifyOrder, ReadLatest, Allow, InsertLog,
           Replace, SpendTokens, accountVars
  <1>2. \E pc \in {"idle", "latest", "allow", "log", "replace", "save"} :
            End(w) \/ Goto(w, pc) \/ (\E uid, kind : Send(w, pc, uid, kind))
    BY DEF RequestLoginCode, RequestPasswordReset, NotifyOrder, ReadLatest, Allow, InsertLog,
           Replace, SpendTokens
  <1>3. Others(w) /\ job'[w].pc \in {"idle", "latest", "allow", "log", "replace", "save"}
    BY <1>2, PcAfter
  <1>4. ~At(w, "mail")
    BY DEF At, RequestLoginCode, RequestPasswordReset, NotifyOrder, ReadLatest, Allow,
           InsertLog, Replace, SpendTokens
  <1>5. Tries' /\ AliveWasMailed'
    BY <1>1, <1>3, <1>4, QuietRequest
  <1>6. RowsOfUsers'
    BY <1>1, QuietRowsOfUsers DEF AccountOk, Versions, RowsOfUsers
  <1>. QED
    BY <1>1, <1>3, <1>5, <1>6, AccountStays DEF Carrying

LEMMA LoginKeeps ==
  ASSUME Types, Tries, AliveWasMailed, AccountOk, NEW w \in Workers, Login(w)
  PROVE  Tries' /\ AliveWasMailed' /\ AccountOk'
  <1>1. QuietRows /\ UNCHANGED accountVars /\ ~At(w, "mail") /\ user.exists
    BY SameRowsAreQuiet DEF Login, accountVars, At
  <1>2. RowsOfUsers'
    BY <1>1, QuietRowsOfUsers DEF AccountOk, Versions, RowsOfUsers
  <1>3. Others(w) /\ job'[w].pc \in {"sign", "latest"}
    BY PcAfter DEF Login
  <1>4. Tries' /\ AliveWasMailed'
    BY <1>1, <1>3, QuietRequest
  <1>5. CASE Carry(w, "sign", user)
    <2>1. "sign" \in Pcs /\ user \in Users
      BY DEF Pcs, Types
    <2>2. /\ job'[w].pc = "sign" /\ job'[w].user = user /\ job'[w].read = user
          /\ job'[w].since = resets
      BY <1>5, <2>1, AfterCarry
    <2>. QED
      BY <1>1, <1>2, <1>3, <1>4, <2>2, CopyTaken DEF Carrying
  <1>6. CASE Send(w, "latest", user.uid, "code")
    <2>1. job'[w].pc = "latest"
      BY <1>6, PcAfter
    <2>. QED
      BY <1>1, <1>2, <1>3, <1>4, <2>1, AccountStays DEF Carrying
  <1>. QED
    BY <1>5, <1>6 DEF Login

LEMMA ConfirmKeeps ==
  ASSUME Types, Tries, AliveWasMailed, AccountOk, NEW w \in Workers, NEW t \in DOMAIN secret,
         ConfirmPasswordReset(w, t)
  PROVE  Tries' /\ AliveWasMailed' /\ AccountOk'
  <1>1. QuietRows /\ UNCHANGED accountVars /\ ~At(w, "mail") /\ user.exists
    BY SameRowsAreQuiet DEF ConfirmPasswordReset, accountVars, At
  <1>2. RowsOfUsers'
    BY <1>1, QuietRowsOfUsers DEF AccountOk, Versions, RowsOfUsers
  <1>3. "reset" \in Pcs /\ user \in Users
    BY DEF Pcs, Types
  <1>4. /\ Others(w) /\ job'[w].pc = "reset" /\ job'[w].user = user /\ job'[w].read = user
        /\ job'[w].since = resets
    BY <1>3, AfterCarry DEF ConfirmPasswordReset
  <1>5. Tries' /\ AliveWasMailed'
    BY <1>1, <1>4, QuietRequest
  <1>. QED
    BY <1>1, <1>2, <1>4, <1>5, CopyTaken DEF Carrying

\* A code to be tried is of the account there is.
LEMMA VerifyKeeps ==
  ASSUME Types, Tries, AliveWasMailed, AccountOk, NEW w \in Workers, NEW right \in BOOLEAN,
         VerifyLoginCode(w, right)
  PROVE  Tries' /\ AliveWasMailed' /\ AccountOk'
  <1>. DEFINE newest == Max(Candidates)
              t == [Idle EXCEPT !.pc = "spend", !.user = user, !.read = user,
                      !.secret = newest, !.attempts = secret[newest].attempts,
                      !.right = right, !.since = resets]
  <1>1. QuietRows /\ UNCHANGED accountVars /\ ~At(w, "mail")
    BY SameRowsAreQuiet DEF VerifyLoginCode, accountVars, At
  <1>2. RowsOfUsers'
    BY <1>1, QuietRowsOfUsers DEF AccountOk, Versions, RowsOfUsers
  <1>3. PICK c \in Candidates : TRUE
    BY DEF VerifyLoginCode
  <1>4. user.exists
    <2>1. secret[c].uid = user.uid /\ secret[c].uid > 0
      BY <1>3 DEF Candidates, Of, AccountOk, Versions
    <2>. QED
      BY <2>1 DEF AccountOk, Versions, NoUser
  <1>5. job' = [job EXCEPT ![w] = t] /\ secret[newest].attempts < MaxAttempts
    BY DEF VerifyLoginCode
  <1>6. /\ t.pc = "spend" /\ t.user = user /\ t.read = user /\ t.since = resets
        /\ t.attempts = secret[newest].attempts
    BY DEF Idle
  <1>. HIDE DEF t, newest
  <1>7. Others(w) /\ job'[w] = t
    BY <1>5 DEF Others, Types
  <1>8. Tries' /\ AliveWasMailed'
    BY <1>1, <1>5, <1>6, <1>7, QuietRequest
  <1>. QED
    BY <1>1, <1>2, <1>4, <1>6, <1>7, <1>8, CopyTaken DEF Carrying

LEMMA SpendKeepsAccount ==
  ASSUME Types, Tries, AliveWasMailed, AccountOk, NEW w \in Workers, SpendCode(w), SavesAreFresh
  PROVE  Tries' /\ AliveWasMailed' /\ AccountOk'
  <1>1. RowsOfUsers'
    BY SpendKeeps DEF AccountOk, Versions, RowsOfUsers
  <1>2. UNCHANGED accountVars /\ At(w, "spend")
    BY DEF SpendCode, accountVars
  <1>3. CASE End(w)
    BY <1>1, <1>2, <1>3, PcAfter, SpendKeeps, AccountStays DEF Carrying
  <1>4. ASSUME NEW pc \in {"sign", "verify"}, Goto(w, pc)
        PROVE  AccountOk'
    <2>1. pc \in Pcs
      BY DEF Pcs
    <2>2. /\ Others(w) /\ job'[w].pc = pc /\ job'[w].user = job[w].user
          /\ job'[w].read = job[w].read /\ job'[w].since = job[w].since
      BY <1>4, <2>1, AfterGoto
    <2>. QED
      BY <1>1, <1>2, <2>2, CopyKept
  <1>. QED
    BY <1>3, <1>4, SpendKeeps DEF SpendCode

LEMMA SendKeepsAccount ==
  ASSUME Types, Tries, AliveWasMailed, AccountOk, NEW w \in Workers, SendSecret(w) \/ SendFails(w)
  PROVE  Tries' /\ AliveWasMailed' /\ AccountOk'
  <1>1. RowsOfUsers'
    BY SendKeeps DEF AccountOk, Versions, RowsOfUsers
  <1>2. UNCHANGED accountVars /\ Others(w) /\ job'[w].pc = "idle"
    BY PcAfter DEF SendSecret, SendFails, accountVars
  <1>. QED
    BY <1>1, <1>2, SendKeeps, AccountStays DEF Carrying

LEMMA SaveSecretKeepsAccount ==
  ASSUME Types, Tries, AliveWasMailed, AccountOk, NEW w \in Workers, SaveSecret(w)
  PROVE  Tries' /\ AliveWasMailed' /\ AccountOk'
  <1>1. Others(w) /\ UNCHANGED accountVars /\ job'[w].pc \in {"idle", "mail"}
    <2>1. job \in [Workers -> Jobs]
      BY DEF Types
    <2>2. CASE End(w)
      BY <2>2, PcAfter DEF SaveSecret, accountVars
    <2>3. CASE job' = [job EXCEPT ![w].pc = "mail", ![w].secret = Len(secret) + 1]
      BY <2>1, <2>3 DEF SaveSecret, accountVars, Others, Jobs
    <2>. QED
      BY <2>2, <2>3 DEF SaveSecret
  <1>2. RowsOfUsers'
    <2>1. CASE UNCHANGED secret
      BY <2>1 DEF AccountOk, Versions, RowsOfUsers
    <2>2. CASE user.exists /\ secret' = Append(secret, Issue(user.uid, job[w].kind))
      <3>. DEFINE x == Issue(user.uid, job[w].kind)
      <3>1. x \in Secrets /\ x.uid = user.uid /\ secret \in Seq(Secrets)
        BY DEF Issue, Secrets, Types, Users, Jobs
      <3>2. user.uid > 0
        BY <2>2 DEF AccountOk, Versions, Types
      <3>. HIDE DEF x
      <3>3. /\ DOMAIN secret' = DOMAIN secret \cup {Len(secret) + 1}
            /\ secret'[Len(secret) + 1] = x
            /\ \A i \in DOMAIN secret : secret'[i] = secret[i]
        BY <2>2, <3>1, AddSecret DEF x
      <3>. QED
        BY <3>1, <3>2, <3>3 DEF AccountOk, Versions, RowsOfUsers
    <2>. QED
      BY <2>1, <2>2 DEF SaveSecret
  <1>. QED
    BY <1>1, <1>2, SaveSecretKeeps, AccountStays DEF Carrying

LEMMA AccountWrites ==
  ASSUME Types, Tries, AliveWasMailed, AccountOk, NEW w \in Workers, SavesAreFresh,
         Register(w) \/ SaveRegistration(w) \/ SaveVerified(w) \/ SaveReset(w) \/ Sign(w)
  PROVE  Tries' /\ AliveWasMailed' /\ AccountOk'
  <1>1. QuietRows /\ ~At(w, "mail")
    BY SameRowsAreQuiet DEF At, Register, SaveRegistration, SaveVerified, SaveReset, Sign
  <1>2. Others(w) /\ job'[w].pc # "spend"
    BY PcAfter DEF Register, SaveRegistration, SaveVerified, SaveReset, Sign
  <1>. QED
    BY <1>1, <1>2, QuietRequest, RegisterKeeps, RegistrationKeeps, VerifiedKeeps, ResetKeeps,
       SignKeeps

LEMMA TimeAndDelete ==
  ASSUME Types, Tries, AliveWasMailed, AccountOk,
         UNCHANGED vars \/ HourPasses \/ Delete \/ (\E i \in DOMAIN secret : Grow(i))
  PROVE  Tries' /\ AliveWasMailed' /\ AccountOk'
  <1>1. QuietRows /\ UNCHANGED job
    BY SameRowsAreQuiet, GrowIsQuiet, UseUpIsQuiet DEF vars, HourPasses, Delete, Grow
  <1>2. Tries' /\ AliveWasMailed'
    BY <1>1, QuietKeeps DEF Tries, At
  <1>3. CASE Delete
    BY <1>2, <1>3, DeleteKeeps
  <1>4. CASE UNCHANGED accountVars
    <2>1. RowsOfUsers'
      BY <1>1, QuietRowsOfUsers DEF AccountOk, Versions, RowsOfUsers
    <2>. QED
      BY <1>1, <1>2, <1>4, <2>1
         DEF AccountOk, Versions, NewAccounts, accountVars, Carrying, At, RowsOfUsers
  <1>. QED
    BY <1>3, <1>4 DEF vars, HourPasses, Grow, accountVars

CalmInv == Tries /\ AliveWasMailed /\ AccountOk

LEMMA CalmStepKeeps == Types /\ CalmInv /\ [CalmStep]_vars => CalmInv'
  <1>. SUFFICES ASSUME Types, Tries, AliveWasMailed, AccountOk, [CalmStep]_vars
                PROVE  Tries' /\ AliveWasMailed' /\ AccountOk'
    BY DEF CalmInv
  <1>1. CASE UNCHANGED vars
    BY <1>1, TimeAndDelete
  <1>2. CASE Next /\ SavesAreFresh
    BY <1>2, TimeAndDelete, AccountWrites, SaveSecretKeepsAccount, SendKeepsAccount,
       SpendKeepsAccount, VerifyKeeps, ConfirmKeeps, LoginKeeps, OtherRequests DEF Next
  <1>. QED
    BY <1>1, <1>2 DEF CalmStep

LEMMA CalmStarts == Init => CalmInv
  BY IdleJob DEF Init, CalmInv, Tries, AliveWasMailed, AccountOk, Versions, NewAccounts, NoUser,
     Carrying, At

LEMMA CalmHolds == CalmSpec => []CalmInv
  <1>1. [CalmStep]_vars => [Next]_vars
    BY DEF CalmStep
  <1>. QED
    BY <1>1, StartsEmpty, CalmStarts, TypesStep, CalmStepKeeps, PTL DEF CalmSpec, CalmStep

\* The rows, the copies that requests carry and the cookies keep their types, in every
\* schedule.
THEOREM TypeCorrect == Spec => []Types
  BY StartsEmpty, TypesStep, PTL DEF Spec

\* A cookie that is accepted was opened from a row read after the last reset: sign-ups,
\* resets and deletions of any number of requests, with no stale copy saved, take
\* tokenVersion to where no older copy has it.
THEOREM SessionsFollowResetsHolds == CalmSpec => []SessionsFollowResets
  <1>1. CalmInv => SessionsFollowResets
    BY DEF CalmInv, AccountOk, Versions, SessionsFollowResets, Accepted
  <1>. QED
    BY <1>1, CalmHolds, PTL

\* No code is tried more often than it may be, nor opens two sessions, for any limit and
\* any number of codes and requests.
THEOREM TriesAreLimitedHolds == CalmSpec => []TriesAreLimited
  <1>1. CalmInv => TriesAreLimited
    BY DEF CalmInv, Tries, TriesAreLimited
  <1>. QED
    BY <1>1, CalmHolds, PTL

\* A code or link that could be used was sent or is being sent.
THEOREM AliveWasMailedHolds == CalmSpec => []AliveWasMailed
  <1>1. CalmInv => AliveWasMailed
    BY DEF CalmInv
  <1>. QED
    BY <1>1, CalmHolds, PTL

=============================================================================
