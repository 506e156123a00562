------------------------------- MODULE Accounts -------------------------------
(***************************************************************************)
(* The account behind one e-mail address: AuthService and AuthTokenService *)
(* (src/src/auth), the quota of EmailGuardService (src/src/email) and the  *)
(* deletion of AccountService (src/src/account).                           *)
(*                                                                         *)
(* A handler is a chain of queries, with a hash of the password or a       *)
(* message between some of them, and carries the rows it has read; a save  *)
(* writes its copy back whole.  Passwords, names, roles, marketing, the    *)
(* waiting times of answers and the limits per network address are left    *)
(* out.                                                                    *)
(***************************************************************************)
EXTENDS Integers, FiniteSets, SequencesExt

CONSTANTS
    Workers,      \* the requests under way at once
    MaxAttempts,  \* tries per code (5 in the code)
    PerHour,      \* messages to the address in an hour (5 in the code)
    MaxSecrets,   \* a bound: the codes and links issued
    MaxUids       \* a bound: the accounts the address has in turn

ASSUME AccountsAssumption ==
    /\ MaxAttempts \in Nat \ {0} /\ PerHour \in Nat \ {0}
    /\ MaxSecrets \in Nat /\ MaxUids \in Nat
    /\ IsFiniteSet(Workers)

VARIABLES
    user,      \* the row of users with the address
    uids,      \* the accounts created so far
    secret,    \* login_codes and password_reset_tokens, by age
    mailLog,   \* the rows of email_send_log of the last hour
    sessions,  \* the cookies handed out; since is a history
    resets,    \* the passwords reset so far, a history
    job        \* what each request is doing

vars == <<user, uids, secret, mailLog, sessions, resets, job>>

NoUser == [exists |-> FALSE, uid |-> 0, verified |-> FALSE, tv |-> 0]

\* age is minute (too young to be replaced), alive or expired; tries and wins are
\* histories of the answers given with a code.
Issue(uid, kind) ==
    [uid |-> uid, kind |-> kind, age |-> "minute", attempts |-> 0, used |-> FALSE,
     deleted |-> FALSE, mailed |-> FALSE, tries |-> 0, wins |-> 0]

Idle == [pc |-> "idle", user |-> NoUser, read |-> NoUser, kind |-> "", secret |-> 0, attempts |-> 0,
         right |-> FALSE, since |-> 0]

Pcs == {"idle", "register", "latest", "allow", "log", "replace", "save", "mail",
        "spend", "verify", "sign", "reset", "spendAll"}

TypeOK ==
    /\ user.tv \in Nat /\ user.verified \in BOOLEAN
    /\ uids \in 0 .. MaxUids
    /\ Len(secret) <= MaxSecrets
    /\ mailLog \in Nat
    /\ \A w \in Workers : job[w].pc \in Pcs

Init ==
    /\ user = NoUser
    /\ uids = 0
    /\ secret = <<>>
    /\ mailLog = 0
    /\ sessions = {}
    /\ resets = 0
    /\ job = [w \in Workers |-> Idle]

-----------------------------------------------------------------------------
At(w, pc) == job[w].pc = pc

Goto(w, pc) == job' = [job EXCEPT ![w].pc = pc]

End(w) == job' = [job EXCEPT ![w] = Idle]

\* Goes on to pc with a copy of the row, to be saved or signed.
Carry(w, pc, row) ==
    job' = [job EXCEPT ![w] = [Idle EXCEPT !.pc = pc, !.user = row, !.read = user,
                                           !.since = resets]]

\* Goes on to send something to the address of an account.
Send(w, pc, uid, kind) ==
    job' = [job EXCEPT ![w] = [Idle EXCEPT !.pc = pc, !.user.uid = uid, !.kind = kind]]

Of(kind) == {i \in DOMAIN secret : /\ secret[i].kind = kind
                                   /\ secret[i].uid = user.uid
                                   /\ ~secret[i].deleted}

\* Unused and not expired.
Alive(i) == ~secret[i].used /\ secret[i].age # "expired"

-----------------------------------------------------------------------------
(* Sign-up and sign-in *)

\* A verified account is left alone; one that is not is claimed again.
Register(w) ==
    /\ At(w, "idle")
    /\ ~user.verified
    /\ uids < MaxUids
    /\ LET uid == IF user.exists THEN user.uid ELSE uids + 1
       IN  /\ uids' = Max({uids, uid})
           /\ Carry(w, "register", [NoUser EXCEPT !.exists = TRUE, !.uid = uid])
    /\ UNCHANGED <<user, secret, mailLog, sessions, resets>>

\* The save of the new row, whose tokenVersion is not set: an insert takes 0, an update
\* leaves the column alone.  email is unique.
SaveRegistration(w) ==
    LET row == job[w].user
    IN  /\ At(w, "register")
        /\ IF user.exists /\ user.uid # row.uid
           THEN End(w) /\ UNCHANGED user
           ELSE /\ user' = [row EXCEPT !.tv = IF user.exists THEN user.tv ELSE 0]
                /\ Send(w, "latest", row.uid, "code")
        /\ UNCHANGED <<uids, secret, mailLog, sessions, resets>>

Login(w) ==
    /\ At(w, "idle")
    /\ user.exists
    /\ IF user.verified THEN Carry(w, "sign", user) ELSE Send(w, "latest", user.uid, "code")
    /\ UNCHANGED <<user, uids, secret, mailLog, sessions, resets>>

RequestLoginCode(w) ==
    /\ At(w, "idle")
    /\ user.exists
    /\ Send(w, "latest", user.uid, "code")
    /\ UNCHANGED <<user, uids, secret, mailLog, sessions, resets>>

RequestPasswordReset(w) ==
    /\ At(w, "idle")
    /\ user.exists
    /\ Send(w, "latest", user.uid, "reset")
    /\ UNCHANGED <<user, uids, secret, mailLog, sessions, resets>>

\* The message of a new order counts for the same quota.
NotifyOrder(w) ==
    /\ At(w, "idle")
    /\ Send(w, "allow", user.uid, "order")
    /\ UNCHANGED <<user, uids, secret, mailLog, sessions, resets>>

-----------------------------------------------------------------------------
(* issueLoginCode, and its like for the link of requestPasswordReset *)

Latest(kind) == CHOOSE i \in Of(kind) : \A j \in Of(kind) : j <= i

ReadLatest(w) ==
    LET kind == job[w].kind
        throttled == /\ Of(kind) # {}
                     /\ ~secret[Latest(kind)].used
                     /\ secret[Latest(kind)].age = "minute"
    IN  /\ At(w, "latest")
        /\ IF throttled THEN End(w) ELSE Goto(w, "allow")
        /\ UNCHANGED <<user, uids, secret, mailLog, sessions, resets>>

\* Mutant: one message more.
AllowOneMore(w) ==
    /\ At(w, "allow")
    /\ IF mailLog > PerHour THEN End(w) ELSE Goto(w, "log")
    /\ UNCHANGED <<user, uids, secret, mailLog, sessions, resets>>

Allow(w) ==
    /\ At(w, "allow")
    /\ IF mailLog >= PerHour THEN End(w) ELSE Goto(w, "log")
    /\ UNCHANGED <<user, uids, secret, mailLog, sessions, resets>>

InsertLog(w) ==
    /\ At(w, "log")
    /\ mailLog' = mailLog + 1
    /\ IF job[w].kind = "order" THEN End(w) ELSE Goto(w, "replace")
    /\ UNCHANGED <<user, uids, secret, sessions, resets>>

Replace(w) ==
    /\ At(w, "replace")
    /\ secret' = [i \in DOMAIN secret |->
                    IF secret[i].kind = job[w].kind /\ secret[i].uid = job[w].user.uid
                    THEN [secret[i] EXCEPT !.used = TRUE] ELSE secret[i]]
    /\ Goto(w, "save")
    /\ UNCHANGED <<user, uids, mailLog, sessions, resets>>

\* The row refers to its user: with the account gone the insert fails.
SaveSecret(w) ==
    /\ At(w, "save")
    /\ Len(secret) < MaxSecrets
    /\ IF user.exists /\ user.uid = job[w].user.uid
       THEN /\ secret' = Append(secret, Issue(user.uid, job[w].kind))
            /\ job' = [job EXCEPT ![w].pc = "mail", ![w].secret = Len(secret) + 1]
       ELSE End(w) /\ UNCHANGED secret
    /\ UNCHANGED <<user, uids, mailLog, sessions, resets>>

SendSecret(w) ==
    /\ At(w, "mail")
    /\ secret' = [secret EXCEPT ![job[w].secret].mailed = TRUE]
    /\ End(w)
    /\ UNCHANGED <<user, uids, mailLog, sessions, resets>>

\* Mutant: the failure is only logged.
LogFailure(w) ==
    /\ At(w, "mail")
    /\ End(w)
    /\ UNCHANGED <<user, uids, secret, mailLog, sessions, resets>>

\* The message fails: the code is saved as used, the link deleted.
SendFails(w) ==
    LET s == job[w].secret
    IN  /\ At(w, "mail")
        /\ secret' = IF job[w].kind = "code"
                     THEN [secret EXCEPT ![s].used = TRUE, ![s].attempts = 0]
                     ELSE [secret EXCEPT ![s].deleted = TRUE]
        /\ End(w)
        /\ UNCHANGED <<user, uids, mailLog, sessions, resets>>

-----------------------------------------------------------------------------
(* verifyLoginCode *)

Candidates == {i \in Of("code") : Alive(i)}

VerifyLoginCode(w, right) ==
    LET newest == Max(Candidates)
    IN  /\ At(w, "idle")
        /\ Candidates # {}
        /\ secret[newest].attempts < MaxAttempts
        /\ right => secret[newest].mailed
        /\ job' = [job EXCEPT ![w] = [Idle EXCEPT !.pc = "spend", !.user = user, !.read = user,
                     !.secret = newest, !.attempts = secret[newest].attempts,
                     !.right = right, !.since = resets]]
        /\ UNCHANGED <<user, uids, secret, mailLog, sessions, resets>>

\* Mutant: a right answer leaves the code to be used again.
SpentWhenWorn(w) == job[w].attempts + 1 >= MaxAttempts

Spent(w) == job[w].right \/ job[w].attempts + 1 >= MaxAttempts

SpendCode(w) ==
    LET s == job[w].secret
    IN  /\ At(w, "spend")
        /\ secret' = [secret EXCEPT
                ![s].attempts = job[w].attempts + 1, ![s].used = Spent(w),
                ![s].tries = @ + 1, ![s].wins = @ + (IF job[w].right THEN 1 ELSE 0)]
        /\ IF job[w].right
           THEN Goto(w, IF job[w].user.verified THEN "sign" ELSE "verify")
           ELSE End(w)
        /\ UNCHANGED <<user, uids, mailLog, sessions, resets>>

SaveVerified(w) ==
    /\ At(w, "verify")
    /\ user' = [job[w].user EXCEPT !.verified = TRUE]
    /\ Goto(w, "sign")
    /\ UNCHANGED <<uids, secret, mailLog, sessions, resets>>

\* The cookie carries the tokenVersion of the copy.
Sign(w) ==
    /\ At(w, "sign")
    /\ sessions' = sessions \cup
            {[uid |-> job[w].user.uid, tv |-> job[w].user.tv, since |-> job[w].since]}
    /\ End(w)
    /\ UNCHANGED <<user, uids, secret, mailLog, resets>>

\* AuthTokenService.verify
Accepted(session) ==
    user.exists /\ session.uid = user.uid /\ session.tv = user.tv

-----------------------------------------------------------------------------
(* confirmPasswordReset *)

ConfirmPasswordReset(w, t) ==
    /\ At(w, "idle")
    /\ t \in Of("reset") /\ Alive(t) /\ secret[t].mailed
    /\ user.exists
    /\ Carry(w, "reset", user)
    /\ UNCHANGED <<user, uids, secret, mailLog, sessions, resets>>

\* Mutant: tokenVersion stays.
ResetKeepingVersion(w) ==
    /\ At(w, "reset")
    /\ user' = [job[w].user EXCEPT !.verified = TRUE]
    /\ resets' = resets + 1
    /\ Goto(w, "spendAll")
    /\ UNCHANGED <<uids, secret, mailLog, sessions>>

SaveReset(w) ==
    /\ At(w, "reset")
    /\ user' = [job[w].user EXCEPT !.verified = TRUE, !.tv = @ + 1]
    /\ resets' = resets + 1
    /\ Goto(w, "spendAll")
    /\ UNCHANGED <<uids, secret, mailLog, sessions>>

SpendTokens(w) ==
    /\ At(w, "spendAll")
    /\ secret' = [i \in DOMAIN secret |->
                    IF secret[i].kind = "reset" /\ secret[i].uid = job[w].user.uid
                    THEN [secret[i] EXCEPT !.used = TRUE] ELSE secret[i]]
    /\ End(w)
    /\ UNCHANGED <<user, uids, mailLog, sessions, resets>>

-----------------------------------------------------------------------------
(* AccountService.delete: codes and links go with the row. *)

Delete ==
    /\ user.verified
    /\ user' = NoUser
    /\ secret' = [i \in DOMAIN secret |->
                    IF secret[i].uid = user.uid THEN [secret[i] EXCEPT !.deleted = TRUE]
                    ELSE secret[i]]
    /\ UNCHANGED <<uids, mailLog, sessions, resets, job>>

\* Time: a secret is throttling, then alive, then expired, older ones first; the oldest
\* message of the log leaves the hour.
Older(age) == IF age = "minute" THEN "alive" ELSE "expired"

Grow(i) ==
    /\ secret[i].age # "expired"
    /\ \A j \in 1 .. (i - 1) : secret[j].age = "expired" \/ secret[j].age = Older(secret[i].age)
    /\ secret' = [secret EXCEPT ![i].age = Older(@)]
    /\ UNCHANGED <<user, uids, mailLog, sessions, resets, job>>

HourPasses ==
    /\ mailLog > 0
    /\ mailLog' = mailLog - 1
    /\ UNCHANGED <<user, uids, secret, sessions, resets, job>>

-----------------------------------------------------------------------------
Next ==
    \/ Delete \/ HourPasses
    \/ \E i \in DOMAIN secret : Grow(i)
    \/ \E w \in Workers :
        \/ Register(w) \/ SaveRegistration(w) \/ Login(w) \/ RequestLoginCode(w) \/ RequestPasswordReset(w)
        \/ NotifyOrder(w)
        \/ ReadLatest(w) \/ Allow(w) \/ InsertLog(w) \/ Replace(w) \/ SaveSecret(w)
        \/ SendSecret(w) \/ SendFails(w)
        \/ \E right \in BOOLEAN : VerifyLoginCode(w, right)
        \/ SpendCode(w) \/ SaveVerified(w) \/ Sign(w)
        \/ \E t \in DOMAIN secret : ConfirmPasswordReset(w, t)
        \/ SaveReset(w) \/ SpendTokens(w)

Spec == Init /\ [][Next]_vars

(* Schedule *)

\* The row a handler saves has not changed since it was read: no two of them that write
\* the account, or the same code, overlap.  Nothing in the code ensures it.
SavesAreFresh ==
    \A w \in Workers :
        job'[w].pc # job[w].pc =>
            /\ job[w].pc \in {"register", "verify", "reset"} => job[w].read = user
            /\ job[w].pc = "spend" =>
                 /\ ~secret[job[w].secret].used
                 /\ secret[job[w].secret].attempts = job[w].attempts

CalmSpec == Init /\ [][Next /\ SavesAreFresh]_vars

-----------------------------------------------------------------------------
(* Properties *)

\* A session that is accepted was opened from a row read after the last reset of the
\* password: the sign-in that was under way when it was saved gets a cookie of no use.
SessionsFollowResets ==
    \A s \in sessions : Accepted(s) => s.since = resets

\* A code answers MaxAttempts times at most and opens one session at most, whatever is
\* issued, fails to be sent or expires between the tries.
TriesAreLimited ==
    \A i \in DOMAIN secret : secret[i].tries <= MaxAttempts /\ secret[i].wins <= 1

\* A secret that could still be used was sent, or is being sent: a failed message leaves
\* nothing alive, which would keep the customer waiting for it.
AliveWasMailed ==
    \A i \in DOMAIN secret :
        Alive(i) /\ ~secret[i].deleted /\ ~secret[i].mailed =>
            \E w \in Workers : At(w, "mail") /\ job[w].secret = i

\* The count is read before the row is inserted: requests at once exceed the quota of an
\* address by one for each that is under way besides the last, and by no more.
QuotaHolds ==
    mailLog + Cardinality({w \in Workers : At(w, "log")}) <= PerHour + Cardinality(Workers) - 1
=============================================================================
