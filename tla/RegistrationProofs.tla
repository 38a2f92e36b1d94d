------------------------- MODULE RegistrationProofs -------------------------
(***************************************************************************)
(* Theorems about Registration, for any addresses, names and requests.     *)
(***************************************************************************)
EXTENDS Registration, TLAPS

(* What a request that has got so far knows of the account it creates,     *)
(* unless staff has deleted that.                                          *)
Entry(v) ==
    LET r == entry[v].code
        e == Address(entry[v].code)
        a == account[Address(entry[v].code)]
    IN  /\ entry[v].place # "code" => r \in mailed
        /\ entry[v].place \in {"profile", "password", "mark"} => a.by = v \/ e \in removed
        /\ entry[v].place \in {"profile", "password"} /\ a.by = v => a.password = None
        /\ entry[v].place \in {"password", "mark"} /\ a.by = v => a.profile \/ e \in removed
        /\ entry[v].place = "mark" /\ a.by = v => a.password = r

(* What an account says of the request that has created it.                *)
Owned(e, v) ==
    account[e].by = v =>
        /\ entry[v].place \notin {"code", "user"}
        /\ e = Address(entry[v].code)
        /\ account[e].name = NameOf[entry[v].code]
        /\ account[e].password \in {None, entry[v].code}
        /\ entry[v].place = "done" /\ v \notin lost =>
               account[e].password # None /\ (account[e].profile \/ e \in removed)

IInv ==
    /\ TypeOK
    /\ \A v \in Verifies : Entry(v)
    /\ \A e \in Emails : \A v \in Verifies : Owned(e, v)
    /\ \A e \in Emails : account[e].by = "google" => account[e].name = e
    /\ UsedMeansAccount

LEMMA AddressType == \A r \in Registers : Address(r) \in Emails
BY FormAssumption, LettersAssumption DEF Address

LEMMA Initial == Init => IInv
<1> SUFFICES ASSUME Init PROVE IInv
    OBVIOUS
<1> USE FormAssumption, NoneAssumption DEF Init, NoRow, NoAccount
<1>1. TypeOK
    BY DEF TypeOK, Exists
<1>2. \A v \in Verifies : Entry(v)
    BY DEF Entry
<1>3. \A e \in Emails : account[e].by = None
    OBVIOUS
<1>4. UsedMeansAccount
    BY DEF UsedMeansAccount
<1>5. QED
    BY <1>1, <1>2, <1>3, <1>4 DEF IInv, Owned

(* What an EXCEPT on one field does.                                       *)
LEMMA Expired ==
  ASSUME TypeOK, NEW r \in Registers, verification' = [verification EXCEPT ![r].fresh = FALSE]
  PROVE  /\ verification' \in [Registers -> [state : {"absent", "open", "used"}, fresh : BOOLEAN]]
         /\ \A x \in Registers : verification'[x].state = verification[x].state
<1>1. verification[r] \in [state : {"absent", "open", "used"}, fresh : BOOLEAN]
    BY DEF TypeOK
<1>2. /\ [verification[r] EXCEPT !.fresh = FALSE] \in
             [state : {"absent", "open", "used"}, fresh : BOOLEAN]
      /\ [verification[r] EXCEPT !.fresh = FALSE].state = verification[r].state
    BY <1>1
<1> DEFINE row == [verification[r] EXCEPT !.fresh = FALSE]
<1>3. verification' = [verification EXCEPT ![r] = row]
    BY DEF TypeOK
<1> HIDE DEF row
<1>4. row \in [state : {"absent", "open", "used"}, fresh : BOOLEAN] /\ row.state = verification[r].state
    BY <1>2 DEF row
<1>5. \A x \in Registers : verification'[x] = IF x = r THEN row ELSE verification[x]
    BY <1>3 DEF TypeOK
<1>6. verification' \in [Registers -> [state : {"absent", "open", "used"}, fresh : BOOLEAN]]
  <2> DEFINE Row == [state : {"absent", "open", "used"}, fresh : BOOLEAN]
  <2>1. verification \in [Registers -> Row] /\ row \in Row
      BY <1>4 DEF TypeOK
  <2> HIDE DEF Row
  <2>2. verification' \in [Registers -> Row]
      BY <1>3, <2>1
  <2>3. QED
      BY <2>2 DEF Row
<1>7. QED
    BY <1>4, <1>5, <1>6

LEMMA Moved ==
  ASSUME TypeOK, NEW v \in Verifies,
         NEW p \in {"code", "user", "profile", "password", "mark", "done"},
         entry' = [entry EXCEPT ![v].place = p]
  PROVE  /\ entry' \in [Verifies -> [place : {"code", "user", "profile", "password", "mark", "done"},
                                    code : Registers \union {None}]]
         /\ entry'[v].place = p /\ entry'[v].code = entry[v].code
         /\ \A w \in Verifies \ {v} : entry'[w] = entry[w]
<1>1. entry[v] \in [place : {"code", "user", "profile", "password", "mark", "done"},
                   code : Registers \union {None}]
    BY DEF TypeOK
<1>2. /\ [entry[v] EXCEPT !.place = p] \in
             [place : {"code", "user", "profile", "password", "mark", "done"},
              code : Registers \union {None}]
      /\ [entry[v] EXCEPT !.place = p].place = p
      /\ [entry[v] EXCEPT !.place = p].code = entry[v].code
    BY <1>1
<1> DEFINE now == [entry[v] EXCEPT !.place = p]
<1>3. entry' = [entry EXCEPT ![v] = now]
    BY DEF TypeOK
<1> HIDE DEF now
<1>4. /\ now \in [place : {"code", "user", "profile", "password", "mark", "done"},
                  code : Registers \union {None}]
      /\ now.place = p /\ now.code = entry[v].code
    BY <1>2 DEF now
<1>5. \A w \in Verifies : entry'[w] = IF w = v THEN now ELSE entry[w]
    BY <1>3 DEF TypeOK
<1>6. entry' \in [Verifies -> [place : {"code", "user", "profile", "password", "mark", "done"},
                              code : Registers \union {None}]]
    BY <1>3, <1>4 DEF TypeOK
<1>7. QED
    BY <1>4, <1>5, <1>6

(* Registering touches no account and no request that enters a code, marks *)
(* nothing as used and mails more and more.                                *)
LEMMA AccountsUnchanged ==
  ASSUME IInv, TypeOK', UNCHANGED <<account, entry, removed>>,
         mailed \subseteq mailed', lost \subseteq lost',
         \A r \in Registers : verification'[r].state = "used" => verification[r].state = "used"
  PROVE  IInv'
BY DEF IInv, Entry, Owned, UsedMeansAccount

LEMMA RegisterPreserves ==
  ASSUME IInv, NEW r \in Registers,
         Register(r) \/ Expire(r) \/ AdminDelete(r) \/ BreakRegister(r)
  PROVE  IInv'
<1> USE FormAssumption, NoneAssumption
<1>1. TypeOK
    BY DEF IInv
<1>2. ASSUME place' \in [Registers -> {"name", "email", "verification", "delete",
                                       "insert", "send", "done"}],
             reply' \in [Registers -> {"none", "taken", "already sent", "sent", "error"}],
             UNCHANGED <<entry, account, removed>>, mailed' \subseteq Registers, mailed \subseteq mailed',
             UNCHANGED lost,
             verification' \in [Registers -> [state : {"absent", "open", "used"}, fresh : BOOLEAN]],
             \A x \in Registers : verification'[x].state \in {"absent", verification[x].state}
      PROVE  IInv'
  <2>1. TypeOK'
      BY <1>1, <1>2 DEF TypeOK, Exists
  <2>2. QED
      BY <1>2, <2>1, AccountsUnchanged
<1>3. CASE CheckName(r) \/ CheckEmail(r) \/ CheckVerification(r) \/ SendCode(r) \/ BreakRegister(r)
  <2>1. UNCHANGED <<verification, entry, account, lost, removed>>
      BY <1>3 DEF CheckName, CheckEmail, CheckVerification, SendCode, BreakRegister
  <2>2. \/ \E p \in {"email", "verification", "delete"} : Go(r, p)
        \/ \E a \in {"taken", "already sent", "sent", "error"} : End(r, a)
        \/ Go(r, "done")
      BY <1>3 DEF CheckName, CheckEmail, CheckVerification, SendCode, BreakRegister
  <2>3. mailed' \in {mailed, mailed \union {r}}
      BY <1>3 DEF CheckName, CheckEmail, CheckVerification, SendCode, BreakRegister
  <2>4. /\ place' \in [Registers -> {"name", "email", "verification", "delete",
                                     "insert", "send", "done"}]
        /\ reply' \in [Registers -> {"none", "taken", "already sent", "sent", "error"}]
    <3>1. ASSUME NEW p \in {"email", "verification", "delete"}, Go(r, p) PROVE <2>4
        BY <1>1, <3>1 DEF TypeOK, Go
    <3>2. ASSUME NEW a \in {"taken", "already sent", "sent", "error"}, End(r, a) PROVE <2>4
        BY <1>1, <3>2 DEF TypeOK, End
    <3>3. CASE Go(r, "done")
        BY <1>1, <3>3 DEF TypeOK, Go
    <3>4. QED
        BY <2>2, <3>1, <3>2, <3>3
  <2>5. mailed' \subseteq Registers /\ mailed \subseteq mailed'
      BY <1>1, <2>3 DEF TypeOK
  <2>6. /\ verification' \in [Registers -> [state : {"absent", "open", "used"}, fresh : BOOLEAN]]
        /\ \A x \in Registers : verification'[x].state \in {"absent", verification[x].state}
      BY <1>1, <2>1 DEF TypeOK
  <2>7. QED
      BY <1>2, <2>1, <2>4, <2>5, <2>6
<1>4. CASE DeleteOld(r)
    BY <1>1, <1>2, <1>4 DEF TypeOK, DeleteOld, Go, NoRow
<1>5. CASE Expire(r) \/ AdminDelete(r)
  <2>1. UNCHANGED <<place, reply, mailed, entry, account, lost, removed>>
      BY <1>5 DEF Expire, AdminDelete
  <2>2. CASE Expire(r)
    <3>1. verification' = [verification EXCEPT ![r].fresh = FALSE]
        BY <2>2 DEF Expire
    <3>2. QED
        BY <1>1, <1>2, <2>1, <3>1, Expired DEF TypeOK
  <2>3. CASE AdminDelete(r)
    <3>1. verification' = [verification EXCEPT ![r] = [state |-> "absent", fresh |-> FALSE]]
        BY <2>3 DEF AdminDelete, NoRow
    <3>2. QED
        BY <1>1, <1>2, <2>1, <3>1 DEF TypeOK
  <2>4. QED
      BY <1>5, <2>2, <2>3
<1>6. CASE InsertCode(r)
  <2>1. CASE Present(EmailOf[r]) # {}
      BY <1>1, <1>2, <1>6, <2>1 DEF TypeOK, InsertCode, End
  <2>2. CASE Present(EmailOf[r]) = {}
    <3>1. /\ verification' = [verification EXCEPT ![r] = [state |-> "open", fresh |-> TRUE]]
          /\ place' = [place EXCEPT ![r] = "send"] /\ reply' = reply
          /\ UNCHANGED <<mailed, entry, account, lost, removed>>
        BY <1>6, <2>2 DEF InsertCode, Go
    <3>2. \A x \in Registers : EmailOf[x] = EmailOf[r] => verification[x].state = "absent"
        BY <2>2 DEF Present
    <3>3. TypeOK'
        BY <1>1, <3>1, <3>2 DEF TypeOK, Exists
    <3>4. \A x \in Registers :
            verification'[x].state = "used" => verification[x].state = "used"
        BY <1>1, <3>1 DEF TypeOK
    <3>5. QED
        BY <3>1, <3>3, <3>4, AccountsUnchanged
  <2>3. QED
      BY <2>1, <2>2
<1>7. QED
    BY <1>3, <1>4, <1>5, <1>6 DEF Register

(* An account with a name that nobody has keeps the names unique.          *)
LEMMA NewAccount ==
  ASSUME TypeOK, NEW e \in Emails, account'[e].name \in Names, ~Taken(account'[e].name),
         \A f \in Emails \ {e} : account'[f] = account[f]
  PROVE  \A e1, e2 \in Emails :
            e1 # e2 /\ Exists(e1)' /\ Exists(e2)' => account'[e1].name # account'[e2].name
<1>1. \A f \in Emails \ {e} : Exists(f)' => Exists(f) /\ account[f].name # account'[e].name
    BY DEF Exists, Taken
<1>2. \A f \in Emails \ {e} : Exists(f)' => account'[f].name # account'[e].name
    BY <1>1
<1>3. \A e1, e2 \in Emails \ {e} :
         e1 # e2 /\ Exists(e1)' /\ Exists(e2)' => account'[e1].name # account'[e2].name
  <2>1. \A e1, e2 \in Emails :
           e1 # e2 /\ Exists(e1) /\ Exists(e2) => account[e1].name # account[e2].name
      BY DEF TypeOK
  <2>2. QED
      BY <1>1, <2>1
<1>4. QED
    BY <1>2, <1>3

LEMMA LoadCodePreserves ==
  ASSUME IInv, NEW v \in Verifies, LoadCode(v)
  PROVE  IInv'
<1> USE FormAssumption, NoneAssumption
<1>1. PICK r \in mailed : entry' = [entry EXCEPT ![v] = [place |-> "user", code |-> r]]
    BY DEF LoadCode
<1>2. /\ entry[v].place = "code"
      /\ UNCHANGED <<place, reply, verification, mailed, account, lost, removed>>
    BY DEF LoadCode
<1>3. TypeOK /\ r \in Registers
    BY DEF IInv, TypeOK
<1>4. TypeOK'
    BY <1>1, <1>2, <1>3 DEF TypeOK, Exists
<1>5. entry'[v].place = "user" /\ entry'[v].code = r
    BY <1>1, <1>3 DEF TypeOK
<1>6. \A w \in Verifies \ {v} : entry'[w] = entry[w]
    BY <1>1, <1>3 DEF TypeOK
<1>7. \A w \in Verifies : Entry(w)'
    BY <1>2, <1>5, <1>6 DEF IInv, Entry
<1>8. \A e \in Emails : \A w \in Verifies : Owned(e, w)'
    BY <1>2, <1>5, <1>6 DEF IInv, Owned
<1>9. QED
    BY <1>2, <1>4, <1>7, <1>8 DEF IInv, UsedMeansAccount

(* A request that writes has a registration and an address.                *)
LEMMA OnItsWay ==
  ASSUME IInv, NEW v \in Verifies, entry[v].place # "code"
  PROVE  /\ entry[v].code \in Registers /\ entry[v].code \in mailed
         /\ Address(entry[v].code) \in Emails
         /\ NameOf[entry[v].code] \in Names
<1>1. entry[v].code \in mailed
    BY DEF IInv, Entry
<1>2. entry[v].code \in Registers
    BY <1>1 DEF IInv, TypeOK
<1>3. QED
    BY <1>1, <1>2, AddressType, FormAssumption

(* What a request knows of its account survives what happens to others.    *)
LEMMA EntryKept ==
  ASSUME NEW w \in Verifies, Entry(w), entry'[w] = entry[w], UNCHANGED <<mailed, removed>>,
         entry[w].place \in {"profile", "password", "mark"} =>
             LET e == Address(entry[w].code) IN
             account'[e] = account[e] \/ (account[e].by # w /\ account'[e].by # w)
  PROVE  Entry(w)'
BY DEF Entry, Address

(* A request writes the row of its own account: one that has nobody's      *)
(* password yet or that is not there, so that no used verification rests   *)
(* on it.                                                                  *)
LEMMA RowWritten ==
  ASSUME IInv, NEW v \in Verifies, entry[v].place \in {"user", "profile", "password"},
         UNCHANGED <<place, reply, verification, mailed, removed>>,
         lost \subseteq lost', lost' \subseteq Verifies,
         NEW r \in Registers, r = entry[v].code, NEW e \in Emails, e = Address(r),
         account[e].by = v \/ (~Exists(e) /\ ~Taken(NameOf[r])),
         account' \in [Emails -> [name : Names \union {None}, password : Registers \union {None},
                                  profile : BOOLEAN, by : Verifies \union {"google", None}]],
         \A f \in Emails \ {e} : account'[f] = account[f],
         account'[e].name = NameOf[r], account'[e].by = v, account'[e].password \in {None, r},
         entry' \in [Verifies -> [place : {"code", "user", "profile", "password", "mark", "done"},
                                  code : Registers \union {None}]],
         NEW p \in {"profile", "password", "mark", "done"},
         entry'[v].place = p, entry'[v].code = r,
         \A w \in Verifies \ {v} : entry'[w] = entry[w],
         p \in {"profile", "password"} => account'[e].password = None,
         p = "mark" => account'[e].password = r,
         p \in {"password", "mark"} => account'[e].profile \/ e \in removed,
         p = "done" => v \in lost'
  PROVE  IInv'
<1> USE FormAssumption, NoneAssumption
<1>1. /\ TypeOK /\ Entry(v) /\ \A f \in Emails : Owned(f, v)
      /\ r \in mailed /\ NameOf[r] \in Names
    BY DEF IInv, Entry
<1>2. account[e].by \in {v, None} /\ account[e].password = None
  <2>1. CASE account[e].by = v
    <3>1. entry[v].place # "user"
        BY <1>1, <2>1 DEF Owned
    <3>2. QED
        BY <1>1, <2>1, <3>1 DEF Entry
  <2>2. CASE ~Exists(e)
      BY <2>2 DEF Exists, NoAccount
  <2>3. QED
      BY <2>1, <2>2
<1>3. \A e1, e2 \in Emails :
         e1 # e2 /\ Exists(e1)' /\ Exists(e2)' => account'[e1].name # account'[e2].name
  <2>1. CASE account[e].by = v
    <3>1. Exists(e) /\ account[e].name = NameOf[r]
        BY <1>1, <2>1 DEF Owned, Exists, NoAccount
    <3>2. \A f \in Emails : Exists(f)' => Exists(f) /\ account'[f].name = account[f].name
        BY <3>1 DEF Exists
    <3>3. \A e1, e2 \in Emails :
             e1 # e2 /\ Exists(e1) /\ Exists(e2) => account[e1].name # account[e2].name
        BY <1>1 DEF TypeOK
    <3>4. QED
        BY <3>2, <3>3
  <2>2. CASE ~Taken(NameOf[r])
      BY <1>1, <2>2, NewAccount
  <2>3. QED
      BY <2>1, <2>2
<1>4. TypeOK'
    BY <1>1, <1>3 DEF TypeOK
<1>5. ASSUME NEW w \in Verifies PROVE Entry(w)'
  <2>1. CASE w = v
      BY <1>1, <2>1 DEF Entry, Address
  <2>2. CASE w # v
    <3>1. Entry(w) /\ entry'[w] = entry[w]
        BY <2>2 DEF IInv
    <3>2. account[e].by # w /\ account'[e].by # w
        BY <1>2, <2>2
    <3>3. entry[w].place \in {"profile", "password", "mark"} => Address(entry[w].code) \in Emails
        BY OnItsWay
    <3>4. QED
        BY <3>1, <3>2, <3>3, EntryKept
  <2>3. QED
      BY <2>1, <2>2
<1>6. ASSUME NEW f \in Emails, NEW w \in Verifies PROVE Owned(f, w)'
  <2>1. CASE f = e
    <3>1. CASE w # v
        BY <2>1, <3>1 DEF Owned
    <3>2. CASE w = v
      <4>1. /\ account'[f].by = v /\ account'[f].name = NameOf[r]
            /\ account'[f].password \in {None, r} /\ r # None
            /\ entry'[w].place = p /\ entry'[w].code = r /\ f = Address(r)'
          BY <2>1, <3>2 DEF Address
      <4>2. p \notin {"code", "user"} /\ (p = "done" => w \in lost')
          BY <3>2
      <4>3. QED
          BY ONLY <4>1, <4>2 DEF Owned, Address
    <3>3. QED
        BY <3>1, <3>2
  <2>2. CASE f # e /\ w = v
    <3>1. account[f].by # v
        BY <1>1, <2>2 DEF Owned
    <3>2. QED
        BY <2>2, <3>1 DEF Owned
  <2>3. CASE f # e /\ w # v
      BY <2>3 DEF IInv, Owned, Address
  <2>4. QED
      BY <2>1, <2>2, <2>3
<1>7. UsedMeansAccount'
  <2>1. ASSUME NEW x \in Registers, verification[x].state = "used", Address(x) \notin removed
        PROVE  Address(x) # e
      BY <1>2, <2>1 DEF IInv, UsedMeansAccount
  <2>2. ASSUME NEW x \in Registers PROVE Address(x) \in Emails /\ Address(x)' = Address(x)
      BY AddressType DEF Address
  <2>3. QED
      BY <2>1, <2>2 DEF IInv, UsedMeansAccount
<1>8. \A f \in Emails : account'[f].by = "google" => account'[f].name = f
    BY DEF IInv
<1>9. QED
    BY <1>4, <1>5, <1>6, <1>7, <1>8 DEF IInv

(* The end of a verifying request, by its last statement or by a kill.     *)
LEMMA EntryEnds ==
  ASSUME IInv, NEW v \in Verifies, TypeOK', UNCHANGED <<mailed, account, removed>>,
         entry' = [entry EXCEPT ![v].place = "done"],
         lost \subseteq lost', entry[v].place \in {"user", "mark", "done"} \/ v \in lost',
         entry[v].place # "code",
         \A r \in Registers : verification'[r].state = "used" =>
             verification[r].state = "used" \/ (entry[v].place = "mark" /\ r = entry[v].code)
  PROVE  IInv'
<1> USE FormAssumption, NoneAssumption
<1>1. TypeOK /\ Entry(v)
    BY DEF IInv
<1>2. /\ entry'[v].place = "done" /\ entry'[v].code = entry[v].code
      /\ \A w \in Verifies \ {v} : entry'[w] = entry[w]
    BY <1>1, Moved
<1>3. \A w \in Verifies : Entry(w)'
    BY <1>2 DEF IInv, Entry
<1>4. ASSUME NEW e \in Emails, NEW w \in Verifies PROVE Owned(e, w)'
  <2>1. CASE w # v
      BY <1>2, <2>1 DEF IInv, Owned
  <2>2. CASE w = v
    <3>1. account[e].by = v /\ entry[v].place = "mark" =>
             account[e].password = entry[v].code /\ (account[e].profile \/ e \in removed)
        BY <1>1 DEF IInv, Owned, Entry
    <3>2. entry[v].place = "mark" => entry[v].code \in Registers
        BY <1>1 DEF Entry, TypeOK
    <3>3. QED
        BY <1>2, <2>2, <3>1, <3>2 DEF IInv, Owned
  <2>3. QED
      BY <2>1, <2>2
<1>5. UsedMeansAccount'
  <2>1. entry[v].place = "mark" /\ Address(entry[v].code) \notin removed =>
          LET r == entry[v].code IN
          /\ account[Address(r)].by = v
          /\ account[Address(r)].password = r
          /\ account[Address(r)].profile
          /\ account[Address(r)].name = NameOf[r]
    <3>1. SUFFICES ASSUME entry[v].place = "mark", Address(entry[v].code) \notin removed
                   PROVE  LET r == entry[v].code IN
                          /\ account[Address(r)].by = v
                          /\ account[Address(r)].password = r
                          /\ account[Address(r)].profile
                          /\ account[Address(r)].name = NameOf[r]
        OBVIOUS
    <3>2. Address(entry[v].code) \in Emails
        BY <3>1, OnItsWay
    <3>3. account[Address(entry[v].code)].by = v
        BY <1>1, <3>1 DEF Entry
    <3>4. account[Address(entry[v].code)].name = NameOf[entry[v].code]
        BY <3>2, <3>3 DEF IInv, Owned
    <3>5. QED
        BY <1>1, <3>1, <3>3, <3>4 DEF Entry
  <2>2. ASSUME NEW x \in Registers PROVE Address(x)' = Address(x)
      BY DEF Address
  <2>3. QED
      BY <2>1, <2>2 DEF IInv, UsedMeansAccount
<1>6. QED
    BY <1>3, <1>4, <1>5 DEF IInv

LEMMA CreateUserPreserves ==
  ASSUME IInv, NEW v \in Verifies, CreateUser(v)
  PROVE  IInv'
<1> DEFINE r == entry[v].code
           e == Address(r)
<1> USE NoneAssumption
<1>1. /\ TypeOK /\ entry[v].place = "user" /\ r \in Registers /\ e \in Emails
      /\ NameOf[r] \in Names
    BY OnItsWay DEF IInv, CreateUser
<1>2. UNCHANGED <<place, reply, verification, mailed, lost, removed>>
    BY DEF CreateUser
<1>3. CASE Exists(e) \/ Taken(NameOf[r])
  <2>1. entry' = [entry EXCEPT ![v].place = "done"] /\ account' = account
      BY <1>3 DEF CreateUser
  <2>2. entry' \in [Verifies -> [place : {"code", "user", "profile", "password", "mark", "done"},
                                code : Registers \union {None}]]
      BY <1>1, <2>1, Moved
  <2>3. TypeOK'
      BY <1>1, <1>2, <2>1, <2>2 DEF TypeOK, Exists
  <2>4. QED
      BY <1>1, <1>2, <2>1, <2>3, EntryEnds
<1>4. CASE ~Exists(e) /\ ~Taken(NameOf[r])
  <2> DEFINE new == [name |-> NameOf[r], password |-> None, profile |-> FALSE, by |-> v]
  <2>1. /\ account' = [account EXCEPT ![e] = new]
        /\ entry' = [entry EXCEPT ![v].place = "profile"]
      BY <1>4 DEF CreateUser, NoAccount
  <2>2. /\ new \in [name : Names \union {None}, password : Registers \union {None},
                    profile : BOOLEAN, by : Verifies \union {"google", None}]
        /\ new.name = NameOf[r] /\ new.by = v /\ new.password = None
      BY <1>1
  <2>3. lost \subseteq lost' /\ lost' \subseteq Verifies
      BY <1>1, <1>2 DEF TypeOK
  <2>4. /\ entry'[v].place = "profile" /\ entry'[v].code = r
        /\ \A w \in Verifies \ {v} : entry'[w] = entry[w]
        /\ entry' \in [Verifies -> [place : {"code", "user", "profile", "password", "mark", "done"},
                                    code : Registers \union {None}]]
      BY <1>1, <2>1, Moved
  <2>5. /\ account' \in [Emails -> [name : Names \union {None}, password : Registers \union {None},
                                    profile : BOOLEAN, by : Verifies \union {"google", None}]]
        /\ account'[e] = new
        /\ \A f \in Emails \ {e} : account'[f] = account[f]
      BY <1>1, <2>1, <2>2 DEF TypeOK
  <2> HIDE DEF new, r, e
  <2>6. r = entry[v].code /\ e = Address(r)
      BY DEF r, e
  <2>7. QED
      BY <1>1, <1>2, <1>4, <2>2, <2>3, <2>4, <2>5, <2>6, RowWritten
<1>5. QED
    BY <1>3, <1>4

LEMMA FailPreserves ==
  ASSUME IInv, NEW v \in Verifies, entry[v].place # "code", Fail(v),
         UNCHANGED <<place, reply, verification, mailed, account, removed>>
  PROVE  IInv'
<1>1. /\ TypeOK
      /\ entry' = [entry EXCEPT ![v].place = "done"]
      /\ lost' = lost \union {v}
    BY DEF IInv, Fail
<1>2. entry' \in [Verifies -> [place : {"code", "user", "profile", "password", "mark", "done"},
                            code : Registers \union {None}]]
    BY <1>1, Moved
<1>3. TypeOK'
    BY <1>1, <1>2 DEF TypeOK, Exists
<1>4. QED
    BY <1>1, <1>3, EntryEnds

LEMMA CreateProfilePreserves ==
  ASSUME IInv, NEW v \in Verifies, CreateProfile(v)
  PROVE  IInv'
<1> DEFINE r == entry[v].code
           e == Address(r)
           Row == [name : Names \union {None}, password : Registers \union {None},
                   profile : BOOLEAN, by : Verifies \union {"google", None}]
<1> USE NoneAssumption
<1>1. /\ TypeOK /\ Entry(v) /\ entry[v].place = "profile" /\ r \in Registers /\ e \in Emails
      /\ NameOf[r] \in Names
    BY OnItsWay DEF IInv, CreateProfile
<1>2. UNCHANGED <<place, reply, verification, mailed, removed>>
    BY DEF CreateProfile
<1>3. CASE Fail(v) /\ UNCHANGED account
    BY <1>1, <1>2, <1>3, FailPreserves
<1>4. CASE ~(Fail(v) /\ UNCHANGED account)
  <2> DEFINE new == [account[e] EXCEPT !.profile = TRUE]
  <2>1. /\ account[e].by = v
        /\ account' = [account EXCEPT ![e].profile = TRUE]
        /\ entry' = [entry EXCEPT ![v].place = "password"]
        /\ lost' = lost
      BY <1>4 DEF CreateProfile
  <2>2. account \in [Emails -> Row] /\ account[e] \in Row
      BY <1>1 DEF TypeOK
  <2>3. account[e].name = NameOf[r] /\ account[e].password = None
      BY <1>1, <2>1 DEF IInv, Entry, Owned
  <2>4. new \in Row /\ new.profile /\ new.name = NameOf[r] /\ new.by = v /\ new.password = None
      BY <2>1, <2>2, <2>3
  <2>5. account' = [account EXCEPT ![e] = new]
      BY <2>1, <2>2
  <2>6. lost \subseteq lost' /\ lost' \subseteq Verifies
      BY <1>1, <2>1 DEF TypeOK
  <2>7. /\ entry'[v].place = "password" /\ entry'[v].code = r
        /\ \A w \in Verifies \ {v} : entry'[w] = entry[w]
        /\ entry' \in [Verifies -> [place : {"code", "user", "profile", "password", "mark", "done"},
                                    code : Registers \union {None}]]
      BY <1>1, <2>1, Moved
  <2> HIDE DEF Row
  <2>8. /\ account' \in [Emails -> Row] /\ account'[e] = new
        /\ \A f \in Emails \ {e} : account'[f] = account[f]
      BY <1>1, <2>2, <2>4, <2>5
  <2> HIDE DEF new, r, e
  <2>9. r = entry[v].code /\ e = Address(r)
      BY DEF r, e
  <2>10. /\ account'[e].name = NameOf[r] /\ account'[e].by = v
         /\ account'[e].password = None /\ account'[e].profile
      BY <2>4, <2>8
  <2>11. account' \in [Emails -> [name : Names \union {None}, password : Registers \union {None},
                                    profile : BOOLEAN, by : Verifies \union {"google", None}]]
      BY <2>8 DEF Row
  <2>12. \A f \in Emails \ {e} : account'[f] = account[f]
      BY <2>8
  <2>13. account[e].by = v \/ (~Exists(e) /\ ~Taken(NameOf[r]))
      BY <2>1
  <2>14. entry[v].place = "profile" /\ r \in Registers /\ e \in Emails
      BY <1>1
  <2>15. QED
      BY <1>2, <2>6, <2>7, <2>9, <2>10, <2>11, <2>12, <2>13, <2>14, RowWritten
<1>5. QED
    BY <1>3, <1>4

LEMMA SetPasswordPreserves ==
  ASSUME IInv, NEW v \in Verifies, SetPassword(v)
  PROVE  IInv'
<1> DEFINE r == entry[v].code
           e == Address(r)
           writable == account[e].by = v \/ (~Exists(e) /\ ~Taken(NameOf[r]))
           user(profile) == [name |-> NameOf[r], password |-> r, profile |-> profile, by |-> v]
           Row == [name : Names \union {None}, password : Registers \union {None},
                   profile : BOOLEAN, by : Verifies \union {"google", None}]
<1>1. /\ TypeOK /\ entry[v].place = "password" /\ r \in Registers /\ e \in Emails
      /\ NameOf[r] \in Names
    BY OnItsWay DEF IInv, SetPassword
<1>2. UNCHANGED <<place, reply, verification, mailed, removed>>
    BY DEF SetPassword
<1>3. account \in [Emails -> Row] /\ account[e].profile \in BOOLEAN
    BY <1>1 DEF TypeOK
<1>4. \A b \in BOOLEAN : /\ user(b) \in Row
                         /\ user(b).name = NameOf[r] /\ user(b).by = v
                         /\ user(b).password = r /\ user(b).profile = b
    BY <1>1
<1>5. CASE Fail(v) /\ UNCHANGED account
    BY <1>1, <1>2, <1>5, FailPreserves
<1>6. CASE /\ writable
           /\ account' = [account EXCEPT ![e] = user(TRUE)]
           /\ entry' = [entry EXCEPT ![v].place = "mark"]
           /\ UNCHANGED lost
  <2>1. lost \subseteq lost' /\ lost' \subseteq Verifies
      BY <1>1, <1>6 DEF TypeOK
  <2>2. PICK new \in Row : /\ account' = [account EXCEPT ![e] = new]
                           /\ new.name = NameOf[r] /\ new.by = v
                           /\ new.password = r /\ new.profile
      BY <1>4, <1>6
  <2>3. /\ entry'[v].place = "mark" /\ entry'[v].code = r
        /\ \A w \in Verifies \ {v} : entry'[w] = entry[w]
        /\ entry' \in [Verifies -> [place : {"code", "user", "profile", "password", "mark", "done"},
                                    code : Registers \union {None}]]
      BY <1>1, <1>6, Moved
  <2> HIDE DEF Row
  <2>4. /\ account' \in [Emails -> Row] /\ account'[e] = new
        /\ \A f \in Emails \ {e} : account'[f] = account[f]
      BY <1>1, <1>3, <2>2
  <2> HIDE DEF r, e, user
  <2>5. r = entry[v].code /\ e = Address(r)
      BY DEF r, e
  <2>6. /\ account'[e].name = NameOf[r] /\ account'[e].by = v
        /\ account'[e].password = r /\ account'[e].profile
      BY <2>2, <2>4
  <2>7. account' \in [Emails -> [name : Names \union {None}, password : Registers \union {None},
                                    profile : BOOLEAN, by : Verifies \union {"google", None}]]
      BY <2>4 DEF Row
  <2>8. \A f \in Emails \ {e} : account'[f] = account[f]
      BY <2>4
  <2>9. account[e].by = v \/ (~Exists(e) /\ ~Taken(NameOf[r]))
      BY <1>6
  <2>10. QED
      BY <1>1, <1>2, <2>1, <2>3, <2>5, <2>6, <2>7, <2>8, <2>9, RowWritten
<1>7. CASE /\ Fail(v) /\ writable
           /\ account' = [account EXCEPT ![e] = user(@.profile)]
  <2>1. /\ entry' = [entry EXCEPT ![v].place = "done"]
        /\ lost' = lost \union {v}
        /\ lost \subseteq lost' /\ lost' \subseteq Verifies
      BY <1>1, <1>7 DEF TypeOK, Fail
  <2>2. PICK new \in Row : /\ account' = [account EXCEPT ![e] = new]
                           /\ new.name = NameOf[r] /\ new.by = v
                           /\ new.password = r
      BY <1>3, <1>4, <1>7
  <2>3. /\ entry'[v].place = "done" /\ entry'[v].code = r
        /\ \A w \in Verifies \ {v} : entry'[w] = entry[w]
        /\ entry' \in [Verifies -> [place : {"code", "user", "profile", "password", "mark", "done"},
                                    code : Registers \union {None}]]
      BY <1>1, <2>1, Moved
  <2> HIDE DEF Row
  <2>4. /\ account' \in [Emails -> Row] /\ account'[e] = new
        /\ \A f \in Emails \ {e} : account'[f] = account[f]
      BY <1>1, <1>3, <2>2
  <2> HIDE DEF r, e, user
  <2>5. r = entry[v].code /\ e = Address(r)
      BY DEF r, e
  <2>6. /\ account'[e].name = NameOf[r] /\ account'[e].by = v
        /\ account'[e].password = r
      BY <2>2, <2>4
  <2>7. account' \in [Emails -> [name : Names \union {None}, password : Registers \union {None},
                                    profile : BOOLEAN, by : Verifies \union {"google", None}]]
      BY <2>4 DEF Row
  <2>8. \A f \in Emails \ {e} : account'[f] = account[f]
      BY <2>4
  <2>9. account[e].by = v \/ (~Exists(e) /\ ~Taken(NameOf[r]))
      BY <1>7
  <2>10. QED
      BY <1>1, <1>2, <2>1, <2>3, <2>5, <2>6, <2>7, <2>8, <2>9, RowWritten
<1>8. QED
    BY <1>5, <1>6, <1>7 DEF SetPassword

LEMMA MarkUsedPreserves ==
  ASSUME IInv, NEW v \in Verifies, MarkUsed(v)
  PROVE  IInv'
<1> DEFINE r == entry[v].code
<1> USE FormAssumption, NoneAssumption
<1>1. /\ TypeOK /\ entry[v].place = "mark" /\ r \in Registers
    BY DEF IInv, MarkUsed, Entry, TypeOK
<1>2. /\ entry' = [entry EXCEPT ![v].place = "done"]
      /\ UNCHANGED <<place, reply, mailed, account, lost, removed>>
    BY DEF MarkUsed
<1>3. entry' \in [Verifies -> [place : {"code", "user", "profile", "password", "mark", "done"},
                            code : Registers \union {None}]]
    BY <1>1, <1>2, Moved
<1>4. CASE Present(EmailOf[r]) \subseteq {r}
  <2>1. verification' = [verification EXCEPT ![r].state = "used"]
      BY <1>4 DEF MarkUsed
  <2> DEFINE row == [verification[r] EXCEPT !.state = "used"]
             Row == [state : {"absent", "open", "used"}, fresh : BOOLEAN]
  <2>2. verification \in [Registers -> Row] /\ verification[r] \in Row
      BY <1>1 DEF TypeOK
  <2>3. row \in Row /\ verification' = [verification EXCEPT ![r] = row]
      BY <2>1, <2>2
  <2> HIDE DEF row, Row
  <2>4. /\ verification' \in [Registers -> Row]
        /\ \A x \in Registers \ {r} : verification'[x] = verification[x]
      BY <2>2, <2>3
  <2>5. \A x \in Registers \ {r} : EmailOf[x] = EmailOf[r] => verification[x].state = "absent"
      BY <1>4 DEF Present
  <2>6. \A r1, r2 \in Registers :
           r1 # r2 /\ EmailOf[r1] = EmailOf[r2] =>
               "absent" \in {verification'[r1].state, verification'[r2].state}
    <3>1. \A r1, r2 \in Registers :
             r1 # r2 /\ EmailOf[r1] = EmailOf[r2] =>
                 "absent" \in {verification[r1].state, verification[r2].state}
        BY <1>1 DEF TypeOK
    <3>2. QED
        BY <2>4, <2>5, <3>1
  <2>7. TypeOK'
      BY <1>1, <1>2, <1>3, <2>4, <2>6 DEF TypeOK, Exists, Row
  <2>8. \A x \in Registers : verification'[x].state = "used" => verification[x].state = "used" \/ x = r
      BY <2>4
  <2>9. QED
      BY <1>1, <1>2, <2>7, <2>8, EntryEnds
<1>5. CASE ~(Present(EmailOf[r]) \subseteq {r})
  <2>1. verification' = verification
      BY <1>5 DEF MarkUsed
  <2>2. TypeOK'
      BY <1>1, <1>2, <1>3, <2>1 DEF TypeOK, Exists
  <2>3. QED
      BY <1>1, <1>2, <2>1, <2>2, EntryEnds
<1>6. QED
    BY <1>4, <1>5

LEMMA GoogleSignInPreserves ==
  ASSUME IInv, NEW e \in Emails, GoogleSignIn(e)
  PROVE  IInv'
<1> USE FormAssumption, NoneAssumption
<1>1. /\ TypeOK /\ account[e].by = None /\ account[e].password = None /\ ~Taken(e)
      /\ account' = [account EXCEPT ![e] =
             [name |-> e, password |-> None, profile |-> TRUE, by |-> "google"]]
      /\ UNCHANGED <<place, reply, verification, mailed, entry, lost, removed>>
    BY DEF IInv, GoogleSignIn, Exists, NoAccount
<1>2. /\ account' \in [Emails -> [name : Names \union {None}, password : Registers \union {None},
                                  profile : BOOLEAN, by : Verifies \union {"google", None}]]
      /\ account'[e] = [name |-> e, password |-> None, profile |-> TRUE, by |-> "google"]
      /\ \A f \in Emails \ {e} : account'[f] = account[f]
    BY <1>1 DEF TypeOK
<1>3. account'[e].name = e /\ e \in Names
    BY <1>2
<1>4. \A e1, e2 \in Emails :
         e1 # e2 /\ Exists(e1)' /\ Exists(e2)' => account'[e1].name # account'[e2].name
    BY <1>1, <1>2, <1>3, NewAccount
<1>5. TypeOK'
    BY <1>1, <1>2, <1>4 DEF TypeOK
<1>6. ASSUME NEW w \in Verifies PROVE Entry(w)'
  <2>1. Entry(w) /\ Address(entry[w].code)' = Address(entry[w].code)
      BY <1>1 DEF IInv, Address
  <2>2. CASE entry[w].place = "code"
      BY <1>1, <2>2 DEF Entry
  <2>3. CASE entry[w].place # "code"
    <3>1. Address(entry[w].code) \in Emails
        BY <2>3, OnItsWay
    <3>2. CASE Address(entry[w].code) = e
        BY <1>1, <1>2, <2>1, <3>2 DEF Entry
    <3>3. CASE Address(entry[w].code) # e
        BY <1>1, <1>2, <2>1, <3>1, <3>3 DEF Entry
    <3>4. QED
        BY <3>2, <3>3
  <2>4. QED
      BY <2>2, <2>3
<1>7. \A f \in Emails : \A w \in Verifies : Owned(f, w)'
    BY <1>1, <1>2 DEF IInv, Owned, Address
<1>8. UsedMeansAccount'
  <2>1. \A x \in Registers : Address(x) \in Emails /\ Address(x)' = Address(x)
      BY AddressType DEF Address
  <2>2. QED
      BY <1>1, <1>2, <2>1 DEF IInv, UsedMeansAccount
<1>9. \A f \in Emails : account'[f].by = "google" => account'[f].name = f
    BY <1>2, <1>3 DEF IInv
<1>10. QED
    BY <1>5, <1>6, <1>7, <1>8, <1>9 DEF IInv

(* Staff deletes: whatever is said of the account is excused from then on. *)
LEMMA AdminDeletePreserves ==
  ASSUME IInv, NEW e \in Emails, AdminDeleteUser(e) \/ AdminDeleteProfile(e)
  PROVE  IInv'
<1> USE FormAssumption, NoneAssumption
<1> DEFINE Row == [name : Names \union {None}, password : Registers \union {None},
                   profile : BOOLEAN, by : Verifies \union {"google", None}]
<1>1. /\ TypeOK /\ removed' = removed \union {e}
      /\ UNCHANGED <<place, reply, verification, mailed, entry, lost>>
    BY DEF IInv, AdminDeleteUser, AdminDeleteProfile
<1>2. account \in [Emails -> Row] /\ account[e] \in Row
    BY <1>1 DEF TypeOK
<1>3. PICK now \in Row :
          /\ account' = [account EXCEPT ![e] = now]
          /\ \/ now = NoAccount
             \/ now.name = account[e].name /\ now.password = account[e].password
                /\ now.by = account[e].by /\ Exists(e)
  <2>1. CASE AdminDeleteUser(e)
      BY <2>1 DEF AdminDeleteUser, NoAccount
  <2>2. CASE AdminDeleteProfile(e)
    <3>1. [account[e] EXCEPT !.profile = FALSE] \in Row
        BY <1>2
    <3>2. account' = [account EXCEPT ![e] = [account[e] EXCEPT !.profile = FALSE]] /\ Exists(e)
        BY <1>2, <2>2 DEF AdminDeleteProfile, Exists, NoAccount
    <3>3. QED
        BY <1>2, <3>1, <3>2
  <2>3. QED
      BY <2>1, <2>2
<1>4. /\ account' \in [Emails -> Row] /\ account'[e] = now
      /\ \A f \in Emails \ {e} : account'[f] = account[f]
    BY <1>2, <1>3
<1>5. account'[e].by # None => /\ account'[e].by = account[e].by
                               /\ account'[e].name = account[e].name
                               /\ account'[e].password = account[e].password
    BY <1>3, <1>4 DEF NoAccount
<1>6. TypeOK'
  <2>1. \A f \in Emails : Exists(f)' => Exists(f) /\ account'[f].name = account[f].name
      BY <1>3, <1>4 DEF Exists
  <2>2. \A e1, e2 \in Emails :
           e1 # e2 /\ Exists(e1) /\ Exists(e2) => account[e1].name # account[e2].name
      BY <1>1 DEF TypeOK
  <2>3. \A e1, e2 \in Emails :
           e1 # e2 /\ Exists(e1)' /\ Exists(e2)' => account'[e1].name # account'[e2].name
      BY <2>1, <2>2
  <2>4. QED
      BY <1>1, <1>4, <2>3 DEF TypeOK
<1>7. ASSUME NEW w \in Verifies PROVE Entry(w)'
  <2>1. Entry(w) /\ Address(entry[w].code)' = Address(entry[w].code)
      BY <1>1 DEF IInv, Address
  <2>2. CASE entry[w].place = "code"
      BY <1>1, <2>2 DEF Entry
  <2>3. CASE entry[w].place # "code"
    <3>1. Address(entry[w].code) \in Emails
        BY <2>3, OnItsWay
    <3>2. CASE Address(entry[w].code) = e
        BY <1>1, <1>5, <2>1, <3>2 DEF Entry
    <3>3. CASE Address(entry[w].code) # e
        BY <1>1, <1>4, <2>1, <3>1, <3>3 DEF Entry
    <3>4. QED
        BY <3>2, <3>3
  <2>4. QED
      BY <2>2, <2>3
<1>8. ASSUME NEW f \in Emails, NEW w \in Verifies PROVE Owned(f, w)'
  <2>1. CASE f = e
      BY <1>1, <1>5, <2>1 DEF IInv, Owned, Address
  <2>2. CASE f # e
      BY <1>1, <1>4, <2>2 DEF IInv, Owned, Address
  <2>3. QED
      BY <2>1, <2>2
<1>9. UsedMeansAccount'
  <2>1. \A x \in Registers : Address(x) \in Emails /\ Address(x)' = Address(x)
      BY AddressType DEF Address
  <2>2. QED
      BY <1>1, <1>4, <2>1 DEF IInv, UsedMeansAccount
<1>10. \A f \in Emails : account'[f].by = "google" => account'[f].name = f
    BY <1>4, <1>5 DEF IInv
<1>11. QED
    BY <1>6, <1>7, <1>8, <1>9, <1>10 DEF IInv

LEMMA Preserved == IInv /\ [Next]_vars => IInv'
<1> SUFFICES ASSUME IInv, [Next]_vars PROVE IInv'
    OBVIOUS
<1>1. CASE Next
  <2>1. ASSUME NEW r \in Registers, Register(r) \/ Expire(r) \/ AdminDelete(r) \/ BreakRegister(r)
        PROVE  IInv'
      BY <2>1, RegisterPreserves
  <2>2. ASSUME NEW v \in Verifies, Verify(v) PROVE IInv'
      BY <2>2, LoadCodePreserves, CreateUserPreserves, CreateProfilePreserves,
         SetPasswordPreserves, MarkUsedPreserves DEF Verify
  <2>3. ASSUME NEW v \in Verifies, BreakVerify(v) PROVE IInv'
      BY <2>3, FailPreserves DEF BreakVerify
  <2>4. ASSUME NEW e \in Emails, GoogleSignIn(e) PROVE IInv'
      BY <2>4, GoogleSignInPreserves
  <2>5. ASSUME NEW e \in Removable, AdminDeleteUser(e) \/ AdminDeleteProfile(e) PROVE IInv'
      BY <2>5, AdminDeletePreserves, RemovableAssumption
  <2>6. QED
      BY <1>1, <2>1, <2>2, <2>3, <2>4, <2>5 DEF Next
<1>2. CASE UNCHANGED vars
  <2>1. TypeOK'
      BY <1>2 DEF vars, IInv, TypeOK, Exists
  <2>2. QED
      BY <1>2, <2>1, AccountsUnchanged DEF vars
<1>3. QED
    BY <1>1, <1>2

LEMMA Invariance == Spec => []IInv
<1>1. QED
    BY Initial, Preserved, PTL DEF Spec

(* Every column keeps its type, and the unique ones stay unique.           *)
THEOREM TypeCorrect == Spec => []TypeOK
<1>1. IInv => TypeOK
    BY DEF IInv
<1>2. QED
    BY <1>1, Invariance, PTL

(* Only a kill, a failed statement or staff leaves an account half.        *)
THEOREM Complete == Spec => []HalfAccountOnlyByFault
<1>1. IInv => HalfAccountOnlyByFault
  <2> SUFFICES ASSUME IInv, NEW e \in Emails, NEW v \in Verifies, account[e].by = v,
                      account[e].password = None \/ ~account[e].profile,
                      entry[v].place \notin {"profile", "password"}, v \notin lost
               PROVE  e \in removed /\ account[e].password # None
      BY DEF HalfAccountOnlyByFault
  <2>1. /\ TypeOK /\ Entry(v) /\ Owned(e, v)
      BY DEF IInv
  <2>2. entry[v].place \in {"mark", "done"} /\ e = Address(entry[v].code)
      BY <2>1 DEF TypeOK, Owned
  <2>3. entry[v].code \in Registers
      BY <2>2, OnItsWay
  <2>4. account[e].password # None /\ (account[e].profile \/ e \in removed)
      BY <2>1, <2>2, <2>3, NoneAssumption DEF Entry, Owned
  <2>5. QED
      BY <2>4
<1>2. QED
    BY <1>1, Invariance, PTL

(* A used verification stands for a complete account with its data, until  *)
(* staff deletes it.                                                       *)
THEOREM Used == Spec => []UsedMeansAccount
<1>1. IInv => UsedMeansAccount
    BY DEF IInv
<1>2. QED
    BY <1>1, Invariance, PTL

(* An account carries the data of the code that was entered, not those of  *)
(* a registration that has replaced it.                                    *)
THEOREM OfItsCode == Spec => []AccountOfItsCode
<1>1. IInv => AccountOfItsCode
    BY DEF IInv, Entry, Owned, AccountOfItsCode
<1>2. QED
    BY <1>1, Invariance, PTL

(* An account of a Google sign-in is found by its address with none but    *)
(* those of addresses that differ from it in case only.                    *)
THEOREM GoogleLogin == Spec => []GoogleLoginFindsAddress
<1>1. IInv => GoogleLoginFindsAddress
  <2> SUFFICES ASSUME IInv, NEW e \in Emails, account[e].by = "google"
               PROVE  /\ DashboardFound(e) = {e}
                      /\ Found(e) = {f \in Emails : Exists(f) /\ Fold[f] = Fold[e]}
      BY DEF GoogleLoginFindsAddress
  <2>1. account[e].name = e /\ Exists(e) /\ Taken(e)
      BY NoneAssumption DEF IInv, Exists, NoAccount, Taken
  <2>2. \A f \in Emails : Exists(f) /\ account[f].name = e => f = e
    <3>1. \A e1, e2 \in Emails :
             e1 # e2 /\ Exists(e1) /\ Exists(e2) => account[e1].name # account[e2].name
        BY DEF IInv, TypeOK
    <3>2. QED
        BY <2>1, <3>1
  <2>3. DashboardFound(e) = {e}
      BY <2>1, <2>2 DEF DashboardFound
  <2>4. Found(e) = {f \in Emails : Exists(f) /\ Fold[f] = Fold[e]}
      BY <2>1, <2>2 DEF Found
  <2>5. QED
      BY <2>3, <2>4
<1>2. QED
    BY <1>1, Invariance, PTL
=============================================================================
