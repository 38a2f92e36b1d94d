---------------------------- MODULE Registration ----------------------------
(***************************************************************************)
(* How accounts come about: a registration stores a verification with a    *)
(* code and mails the code; entering it creates the account, its profile   *)
(* and its password; a sign-in with Google creates an account too. Every   *)
(* statement of a request commits on its own (ATOMIC_REQUESTS is not set)  *)
(* and may fail on its own, requests for one address or one user name run  *)
(* at the same time, and staff deletes users and profiles meanwhile.       *)
(***************************************************************************)
EXTENDS Naturals

CONSTANTS
    Emails,
    Names,          \* user names; the address is one when Google signs in
    Registers,      \* requests to register
    EmailOf, NameOf,\* what they ask for; each has a password of its own
    Verifies,       \* requests that enter a code
    Normal,         \* an address with its domain in small letters
    Fold,           \* and one with all of its letters small
    Removable,      \* addresses whose user or profile staff deletes
    None

ASSUME FormAssumption ==
    /\ Emails \subseteq Names
    /\ EmailOf \in [Registers -> Emails]
    /\ NameOf \in [Registers -> Names]
ASSUME RemovableAssumption == Removable \subseteq Emails
ASSUME LettersAssumption ==
    /\ Normal \in [Emails -> Emails] /\ Fold \in [Emails -> Emails]
    /\ \A e \in Emails : Normal[Normal[e]] = Normal[e] /\ Fold[Normal[e]] = Fold[e]
ASSUME NoneAssumption ==
    /\ None \notin Registers \union Verifies \union Emails \union {"google"}
    /\ "google" \notin Verifies

VARIABLES
    place,          \* the next statement of every registration
    reply,          \* and what it has been answered
    verification,   \* the row of EmailVerification that it has inserted
    mailed,         \* registrations whose code has been mailed
    entry,          \* the next statement of every verifying request and
                    \* the code it was given
    account,        \* for every address the user, the profile included
    lost,           \* verifying requests killed or with a failed statement
    removed         \* addresses whose user or profile was deleted

vars == <<place, reply, verification, mailed, entry, account, lost, removed>>

NoRow == [state |-> "absent", fresh |-> FALSE]
NoAccount == [name |-> None, password |-> None, profile |-> FALSE, by |-> None]

Present(e) == {r \in Registers : EmailOf[r] = e /\ verification[r].state # "absent"}
Unused(e) == {r \in Present(e) : verification[r].state = "open"}
Exists(e) == account[e] # NoAccount
Taken(name) == \E e \in Emails : Exists(e) /\ account[e].name = name

(* create_user normalizes the address; the columns and the checks compare  *)
(* addresses as they are spelled.                                          *)
Address(r) == Normal[EmailOf[r]]

TypeOK ==
    /\ place \in [Registers -> {"name", "email", "verification", "delete",
                                "insert", "send", "done"}]
    /\ reply \in [Registers -> {"none", "taken", "already sent", "sent", "error"}]
    /\ verification \in [Registers -> [state : {"absent", "open", "used"}, fresh : BOOLEAN]]
    /\ mailed \subseteq Registers
    /\ entry \in [Verifies -> [place : {"code", "user", "profile", "password", "mark", "done"},
                               code : Registers \union {None}]]
    /\ account \in [Emails -> [name : Names \union {None}, password : Registers \union {None},
                               profile : BOOLEAN, by : Verifies \union {"google", None}]]
    /\ lost \subseteq Verifies
    /\ removed \subseteq Emails
    /\ \A r1, r2 \in Registers :
         r1 # r2 /\ EmailOf[r1] = EmailOf[r2] =>
             "absent" \in {verification[r1].state, verification[r2].state}
    /\ \A e1, e2 \in Emails :
         e1 # e2 /\ Exists(e1) /\ Exists(e2) => account[e1].name # account[e2].name

Init ==
    /\ place = [r \in Registers |-> "name"]
    /\ reply = [r \in Registers |-> "none"]
    /\ verification = [r \in Registers |-> NoRow]
    /\ mailed = {}
    /\ entry = [v \in Verifies |-> [place |-> "code", code |-> None]]
    /\ account = [e \in Emails |-> NoAccount]
    /\ lost = {} /\ removed = {}

-----------------------------------------------------------------------------
(* Registering: three queries, then the old verifications of the address   *)
(* go, the new one is inserted, and the mail is sent before the response.  *)

End(r, answer) ==
    /\ place' = [place EXCEPT ![r] = "done"]
    /\ reply' = [reply EXCEPT ![r] = answer]

Go(r, next) == place' = [place EXCEPT ![r] = next] /\ UNCHANGED reply

CheckName(r) ==
    /\ place[r] = "name"
    /\ IF Taken(NameOf[r]) THEN End(r, "taken") ELSE Go(r, "email")
    /\ UNCHANGED <<verification, mailed, entry, account, lost, removed>>

CheckEmail(r) ==
    /\ place[r] = "email"
    /\ IF Exists(EmailOf[r]) THEN End(r, "taken") ELSE Go(r, "verification")
    /\ UNCHANGED <<verification, mailed, entry, account, lost, removed>>

(* A verification counts here also after its code has expired.             *)
CheckVerification(r) ==
    /\ place[r] = "verification"
    /\ IF Unused(EmailOf[r]) # {} THEN End(r, "already sent") ELSE Go(r, "delete")
    /\ UNCHANGED <<verification, mailed, entry, account, lost, removed>>

DeleteOld(r) ==
    /\ place[r] = "delete"
    /\ verification' = [x \in Registers |->
           IF EmailOf[x] = EmailOf[r] THEN NoRow ELSE verification[x]]
    /\ Go(r, "insert")
    /\ UNCHANGED <<mailed, entry, account, lost, removed>>

(* Mutant: the address of a verification is not unique.                    *)
InsertCodeAgain(r) ==
    /\ place[r] = "insert"
    /\ verification' = [verification EXCEPT ![r] = [state |-> "open", fresh |-> TRUE]]
    /\ Go(r, "send")
    /\ UNCHANGED <<mailed, entry, account, lost, removed>>

InsertCode(r) ==
    /\ place[r] = "insert"
    /\ \/ /\ Present(EmailOf[r]) = {}
          /\ verification' = [verification EXCEPT ![r] = [state |-> "open", fresh |-> TRUE]]
          /\ Go(r, "send")
       \/ /\ Present(EmailOf[r]) # {}
          /\ End(r, "error")
          /\ UNCHANGED verification
    /\ UNCHANGED <<mailed, entry, account, lost, removed>>

(* send_mail raises when the server does not take the mail.                *)
SendCode(r) ==
    /\ place[r] = "send"
    /\ \/ mailed' = mailed \union {r} /\ End(r, "sent")
       \/ End(r, "error") /\ UNCHANGED mailed
    /\ UNCHANGED <<verification, entry, account, lost, removed>>

-----------------------------------------------------------------------------
(* Verifying. The code of a registration is that of no other one.          *)

(* Mutant: any unused verification of the address will do.                 *)
LoadCodeOfEmail(v) ==
    /\ entry[v].place = "code"
    /\ \E typed \in mailed : \E r \in Unused(EmailOf[typed]) :
        /\ verification[r].fresh
        /\ entry' = [entry EXCEPT ![v] = [place |-> "user", code |-> r]]
    /\ UNCHANGED <<place, reply, verification, mailed, account, lost, removed>>

LoadCode(v) ==
    /\ entry[v].place = "code"
    /\ \E typed \in mailed :
        /\ verification[typed].state = "open"
        /\ verification[typed].fresh
        /\ entry' = [entry EXCEPT ![v] = [place |-> "user", code |-> typed]]
    /\ UNCHANGED <<place, reply, verification, mailed, account, lost, removed>>

(* A statement fails and ends the request: the database refuses it or the  *)
(* connection to it is lost.                                               *)
Fail(v) ==
    /\ entry' = [entry EXCEPT ![v].place = "done"]
    /\ lost' = lost \union {v}

(* The address and the name are unique columns.                            *)
CreateUser(v) ==
    LET r == entry[v].code  e == Address(r) IN
    /\ entry[v].place = "user"
    /\ \/ /\ ~Exists(e) /\ ~Taken(NameOf[r])
          /\ account' = [account EXCEPT ![e] = [NoAccount EXCEPT !.name = NameOf[r], !.by = v]]
          /\ entry' = [entry EXCEPT ![v].place = "profile"]
       \/ /\ Exists(e) \/ Taken(NameOf[r])
          /\ entry' = [entry EXCEPT ![v].place = "done"]
          /\ UNCHANGED account
    /\ UNCHANGED <<place, reply, verification, mailed, lost, removed>>

(* The signal of the first save; there is no profile without its user.     *)
CreateProfile(v) ==
    LET e == Address(entry[v].code) IN
    /\ entry[v].place = "profile"
    /\ \/ /\ account[e].by = v
          /\ account' = [account EXCEPT ![e].profile = TRUE]
          /\ entry' = [entry EXCEPT ![v].place = "password"]
          /\ UNCHANGED lost
       \/ Fail(v) /\ UNCHANGED account
    /\ UNCHANGED <<place, reply, verification, mailed, removed>>

(* Mutant: the verification is saved before the user.                      *)
SetPasswordLast(v) ==
    LET r == entry[v].code IN
    /\ entry[v].place = "password"
    /\ entry' = [entry EXCEPT ![v].place = "done"]
    /\ \/ /\ Present(EmailOf[r]) \subseteq {r}
          /\ verification' = [verification EXCEPT ![r].state = "used"]
          /\ account' = [account EXCEPT ![Address(r)].password = r]
       \/ /\ ~(Present(EmailOf[r]) \subseteq {r})
          /\ UNCHANGED <<verification, account>>
    /\ UNCHANGED <<place, reply, mailed, lost, removed>>

(* Mutant: set_password without save.                                      *)
SetPasswordUnsaved(v) ==
    /\ entry[v].place = "password"
    /\ entry' = [entry EXCEPT ![v].place = "mark"]
    /\ UNCHANGED <<place, reply, verification, mailed, account, lost, removed>>

(* user.save() writes the whole row and then, by the signal, the profile:  *)
(* it inserts again what staff has deleted, unless the address or the name *)
(* has been taken meanwhile. It may fail before either statement.          *)
SetPassword(v) ==
    LET r == entry[v].code  e == Address(r)
        writable == account[e].by = v \/ (~Exists(e) /\ ~Taken(NameOf[r]))
        user(profile) == [name |-> NameOf[r], password |-> r, profile |-> profile, by |-> v]
    IN
    /\ entry[v].place = "password"
    /\ \/ /\ writable
          /\ account' = [account EXCEPT ![e] = user(TRUE)]
          /\ entry' = [entry EXCEPT ![v].place = "mark"]
          /\ UNCHANGED lost
       \/ Fail(v) /\ UNCHANGED account
       \/ /\ Fail(v) /\ writable
          /\ account' = [account EXCEPT ![e] = user(@.profile)]
    /\ UNCHANGED <<place, reply, verification, mailed, removed>>

(* ev.save() writes the whole row: it inserts a row that has been deleted, *)
(* unless another one has taken its address.                               *)
MarkUsed(v) ==
    LET r == entry[v].code IN
    /\ entry[v].place = "mark"
    /\ IF Present(EmailOf[r]) \subseteq {r}
       THEN verification' = [verification EXCEPT ![r].state = "used"]
       ELSE UNCHANGED verification
    /\ entry' = [entry EXCEPT ![v].place = "done"]
    /\ UNCHANGED <<place, reply, mailed, account, lost, removed>>

-----------------------------------------------------------------------------
(* Mutant: another name is found when the address is taken as one.         *)
GoogleSignInRenamed(e) ==
    /\ ~Exists(e)
    /\ \E name \in Names : ~Taken(name) /\
         account' = [account EXCEPT ![e] =
            [name |-> name, password |-> None, profile |-> TRUE, by |-> "google"]]
    /\ UNCHANGED <<place, reply, verification, mailed, entry, lost, removed>>

(* get_or_create: the account and its profile in one transaction, with the *)
(* address as the user name; nothing when that name is taken.              *)
GoogleSignIn(e) ==
    /\ ~Exists(e) /\ ~Taken(e)
    /\ account' = [account EXCEPT ![e] =
           [name |-> e, password |-> None, profile |-> TRUE, by |-> "google"]]
    /\ UNCHANGED <<place, reply, verification, mailed, entry, lost, removed>>

(* Ten minutes after created_at.                                           *)
Expire(r) ==
    /\ verification[r].fresh
    /\ verification' = [verification EXCEPT ![r].fresh = FALSE]
    /\ UNCHANGED <<place, reply, mailed, entry, account, lost, removed>>

AdminDelete(r) ==
    /\ verification[r].state # "absent"
    /\ verification' = [verification EXCEPT ![r] = NoRow]
    /\ UNCHANGED <<place, reply, mailed, entry, account, lost, removed>>

(* The profile goes with its user.                                         *)
AdminDeleteUser(e) ==
    /\ Exists(e)
    /\ account' = [account EXCEPT ![e] = NoAccount]
    /\ removed' = removed \union {e}
    /\ UNCHANGED <<place, reply, verification, mailed, entry, lost>>

AdminDeleteProfile(e) ==
    /\ account[e].profile
    /\ account' = [account EXCEPT ![e].profile = FALSE]
    /\ removed' = removed \union {e}
    /\ UNCHANGED <<place, reply, verification, mailed, entry, lost>>

(* The process that serves a request is killed between two statements, or  *)
(* the next statement fails, whichever it is. One that is carried out and  *)
(* whose answer is lost leaves what a kill right after it leaves.          *)
BreakRegister(r) ==
    /\ place[r] \notin {"name", "done"}
    /\ End(r, "error") \/ Go(r, "done")
    /\ UNCHANGED <<verification, mailed, entry, account, lost, removed>>

BreakVerify(v) ==
    /\ entry[v].place \notin {"code", "done"}
    /\ Fail(v)
    /\ UNCHANGED <<place, reply, verification, mailed, account, removed>>

-----------------------------------------------------------------------------
Register(r) ==
    \/ CheckName(r) \/ CheckEmail(r) \/ CheckVerification(r)
    \/ DeleteOld(r) \/ InsertCode(r) \/ SendCode(r)

Verify(v) ==
    LoadCode(v) \/ CreateUser(v) \/ CreateProfile(v) \/ SetPassword(v) \/ MarkUsed(v)

Next ==
    \/ \E r \in Registers : Register(r) \/ Expire(r) \/ AdminDelete(r) \/ BreakRegister(r)
    \/ \E v \in Verifies : Verify(v) \/ BreakVerify(v)
    \/ \E e \in Emails : GoogleSignIn(e)
    \/ \E e \in Removable : AdminDeleteUser(e) \/ AdminDeleteProfile(e)

Spec == Init /\ [][Next]_vars

-----------------------------------------------------------------------------
(* The accounts that a login finds. LoginSerializer takes names as they    *)
(* are and addresses in any case together, and fails when they are two;    *)
(* the form of the dashboard looks for an address, as it is spelled, only  *)
(* when there is no such name.                                             *)
Found(login) ==
    {e \in Emails : Exists(e) /\ (\/ account[e].name = login
                                  \/ login \in Emails /\ Fold[e] = Fold[login])}

DashboardFound(login) ==
    {e \in Emails : Exists(e) /\ login = IF Taken(login) THEN account[e].name ELSE e}

-----------------------------------------------------------------------------
(* Correctness. TypeOK above is the type invariant; with the columns it    *)
(* states the unique ones: addresses of verifications and user names.      *)

(* An account that nobody is creating any more is complete, with profile   *)
(* and password, unless the request that was creating it was killed or had *)
(* a statement fail halfway (create_user, the signal and user.save() are   *)
(* three commits), or staff has deleted the profile: nothing that another  *)
(* registration, verification or sign-in does leaves a half one behind.    *)
HalfAccountOnlyByFault ==
    \A e \in Emails : \A v \in Verifies :
        account[e].by = v /\ (account[e].password = None \/ ~account[e].profile)
            => \/ entry[v].place \in {"profile", "password"}
               \/ v \in lost
               \/ e \in removed /\ account[e].password # None

(* A used verification stands for an account with the name and the         *)
(* password it was stored with, also when it was replaced meanwhile, until *)
(* staff deletes the account.                                              *)
UsedMeansAccount ==
    \A r \in Registers : verification[r].state = "used" /\ Address(r) \notin removed =>
        /\ account[Address(r)].name = NameOf[r]
        /\ account[Address(r)].password = r
        /\ account[Address(r)].profile

(* The name and the password of an account are those of a registration     *)
(* whose own code has been mailed: never those of another registration of  *)
(* the same address that replaced it.                                      *)
AccountOfItsCode ==
    \A e \in Emails : \A v \in Verifies : account[e].by = v =>
        /\ entry[v].code \in mailed
        /\ account[e].name = NameOf[entry[v].code]
        /\ account[e].password \in {None, entry[v].code}

(* The address of one who has signed in with Google finds him, alone in    *)
(* the dashboard's form, and in LoginSerializer with exactly those whose   *)
(* addresses differ from his in case only (there get raises): never with   *)
(* somebody who has registered with his address as a user name.            *)
GoogleLoginFindsAddress ==
    \A e \in Emails : account[e].by = "google" =>
        /\ DashboardFound(e) = {e}
        /\ Found(e) = {f \in Emails : Exists(f) /\ Fold[f] = Fold[e]}

(* "Check your email - code already sent." (serializers.py:22): whoever is *)
(* refused with these words has been sent a code, or is about to be.       *)
RefusedMeansSent ==
    \A r \in Registers : reply[r] = "already sent" =>
        \E x \in Registers :
            EmailOf[x] = EmailOf[r] /\ (x \in mailed \/ place[x] = "send")

=============================================================================
