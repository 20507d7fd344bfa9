--------------------------- MODULE AccountsProofs ---------------------------
(***************************************************************************)
(* Theorems about Accounts, for any accounts, keys, queues, administrators *)
(* and callers.  Each names the timing assumption it needs, if any.        *)
(***************************************************************************)
EXTENDS Accounts, TLAPS

-----------------------------------------------------------------------------
(* Type correctness *)

\* Between its statements a request of an administrator knows its account, and one
\* about keys the definition it read and the name it was given; a caller's request
\* that was authenticated names an account and a queue.
AdminsInHand ==
  \A t \in Administrators :
    /\ apc[t] # "idle" => account[t] \in Accounts
    /\ apc[t] \in {"deleteKey", "addKey"} => definition[t] \in Definitions /\ keyName[t] \in KeyNames

CallersInHand ==
  \A c \in Callers : cpc[c] # "idle" => request[c] \in [account : Accounts, queue : QueueNames]

TypeInv == TypeOK /\ AdminsInHand /\ CallersInHand

LEMMA TypeInit == Init => TypeInv
BY BoundsAssumption DEF Init, TypeInv, TypeOK, AdminsInHand, CallersInHand, Times

\* The three requests that start with lookupAccount
LEMMA LookupKeepsTypes ==
  ASSUME TypeInv, NEW t \in Administrators, NEW a \in Accounts,
         \/ StartDeleteAccount(t, a)
         \/ \E k \in KeyNames : StartAddNewKey(t, a, k) \/ StartDeleteAccountKey(t, a, k)
  PROVE  TypeInv'
<1> USE DEF TypeInv, TypeOK, AdminsInHand, CallersInHand, admins, callers
<1>1. PICK label \in {"listQueues", "deleteKey", "addKey"} :
        /\ LookupAccount(t, a, label)
        /\ \/ label = "listQueues" /\ UNCHANGED keyName
           \/ \E k \in KeyNames : keyName' = [keyName EXCEPT ![t] = k]
  BY DEF StartDeleteAccount, StartAddNewKey, StartDeleteAccountKey
<1>2. accounts[a] \in Definitions
  BY <1>1 DEF LookupAccount
<1>3. /\ apc' = [apc EXCEPT ![t] = label] /\ account' = [account EXCEPT ![t] = a]
      /\ definition' = [definition EXCEPT ![t] = accounts[a]]
      /\ UNCHANGED <<accounts, queues, jobs, now, urls, cpc, request, made, told>>
  BY <1>1 DEF LookupAccount
<1>4. keyName' \in [Administrators -> KeyNames \union {Nil}]
  BY <1>1
<1>5. AdminsInHand'
  BY <1>1, <1>2, <1>3
<1> QED
  BY <1>1, <1>2, <1>3, <1>4, <1>5

\* What ends a request of an administrator
LEMMA EndKeepsTypes ==
  ASSUME TypeInv, NEW t \in Administrators, AdminEnds(t)
  PROVE  /\ apc' \in [Administrators -> {"idle", "deleteKey", "addKey", "listQueues", "deleteAccount"}]
         /\ account' \in [Administrators -> Accounts \union {Nil}]
         /\ definition' \in [Administrators -> Definitions \union {Nil}]
         /\ keyName' \in [Administrators -> KeyNames \union {Nil}]
         /\ AdminsInHand'
BY DEF TypeInv, TypeOK, AdminsInHand, AdminEnds

LEMMA TypeNext ==
  ASSUME TypeInv, [Next]_vars
  PROVE  TypeInv'
<1> USE BoundsAssumption, KeyNamesAssumption
    DEF TypeInv, TypeOK, AdminsInHand, CallersInHand, admins, callers
<1>1. ASSUME NEW a \in Accounts, CreateAccount(a)
      PROVE  TypeInv'
  <2>1. made + 1 \in Keys /\ made + 2 \in Keys /\ made' \in 0 .. MaxKeys
    BY <1>1 DEF CreateAccount, Keys
  <2>2. accounts' \in [Accounts -> Definitions \union {Nil}]
    BY <1>1, <2>1 DEF CreateAccount, Definitions
  <2>3. told' \in [Accounts -> SUBSET Keys]
    BY <1>1, <2>1 DEF CreateAccount
  <2> QED
    BY <1>1, <2>1, <2>2, <2>3 DEF CreateAccount
<1>2. ASSUME NEW a \in Accounts, NEW k \in KeyNames, GenerateAuthUrl(a, k)
      PROVE  TypeInv'
  BY <1>2 DEF GenerateAuthUrl
<1>3. ASSUME NEW a \in Accounts, NEW t \in Administrators,
             \/ StartDeleteAccount(t, a)
             \/ \E k \in KeyNames : StartAddNewKey(t, a, k) \/ StartDeleteAccountKey(t, a, k)
      PROVE  TypeInv'
  BY <1>3, LookupKeepsTypes
<1>4. ASSUME NEW c \in Callers, NEW op \in Operations, NEW a \in Accounts, NEW q \in QueueNames,
             Authenticate(c, op, a, q)
      PROVE  TypeInv'
  BY <1>4 DEF Authenticate
<1>5. ASSUME NEW t \in Administrators, DeleteAccountKey(t)
      PROVE  TypeInv'
  <2>1. account[t] \in Accounts /\ definition[t] \in Definitions /\ keyName[t] \in KeyNames
    BY <1>5 DEF DeleteAccountKey
  <2>2. accounts' \in [Accounts -> Definitions \union {Nil}] /\ told' \in [Accounts -> SUBSET Keys]
    BY <1>5, <2>1 DEF DeleteAccountKey, Definitions
  <2> QED
    BY <1>5, <2>2, EndKeepsTypes DEF DeleteAccountKey
<1>6. ASSUME NEW t \in Administrators, AddNewKey(t)
      PROVE  TypeInv'
  <2>1. account[t] \in Accounts /\ definition[t] \in Definitions /\ keyName[t] \in KeyNames
    BY <1>6 DEF AddNewKey
  <2>2. made + 1 \in Keys /\ made' \in 0 .. MaxKeys
    BY <1>6 DEF AddNewKey, Keys
  <2>3. accounts' \in [Accounts -> Definitions \union {Nil}] /\ told' \in [Accounts -> SUBSET Keys]
    BY <1>6, <2>1, <2>2 DEF AddNewKey, Definitions
  <2> QED
    BY <1>6, <2>2, <2>3, EndKeepsTypes DEF AddNewKey
<1>7. ASSUME NEW t \in Administrators, SubmitJobs(t)
      PROVE  TypeInv'
  <2>1. jobs' \subseteq Accounts \X QueueNames
    BY <1>7 DEF SubmitJobs
  <2> QED
    BY <1>7, <2>1 DEF SubmitJobs
<1>8. ASSUME NEW t \in Administrators, DeleteAccount(t)
      PROVE  TypeInv'
  <2>1. accounts' \in [Accounts -> Definitions \union {Nil}] /\ told' \in [Accounts -> SUBSET Keys]
    BY <1>8 DEF DeleteAccount
  <2> QED
    BY <1>8, <2>1, EndKeepsTypes DEF DeleteAccount
<1>9. ASSUME NEW c \in Callers, Perform(c)
      PROVE  TypeInv'
  <2>1. queues' \subseteq Accounts \X QueueNames
    BY <1>9 DEF Perform
  <2> QED
    BY <1>9, <2>1 DEF Perform
<1>10. ASSUME NEW job \in jobs, RunJob(job)
       PROVE  TypeInv'
  BY <1>10 DEF RunJob
<1>11. CASE Tick
  BY <1>11 DEF Tick, Times
<1>12. CASE UNCHANGED vars
  BY <1>12 DEF vars
<1> QED
  BY <1>1, <1>2, <1>3, <1>4, <1>5, <1>6, <1>7, <1>8, <1>9, <1>10, <1>11, <1>12 DEF Next

\* Accounts, queues, jobs, URLs and requests keep their types.
THEOREM TypeCorrect == Spec => []TypeOK
<1>1. TypeInv => TypeOK
  BY DEF TypeInv
<1> QED
  BY <1>1, TypeInit, TypeNext, PTL DEF Spec

-----------------------------------------------------------------------------
(* The keys an account has and those its administrators were told of *)

KeysIn(keys) == {keys[k] : k \in KeyNames} \ {Nil}

LEMMA DefinitionIsARow ==
  ASSUME NEW keys \in Definitions
  PROVE  keys # Nil /\ KeysIn(keys) \subseteq Keys
<1>1. keys \in [KeyNames -> Nat \union {Nil}]
  BY BoundsAssumption DEF Definitions, Keys
<1> QED
  BY <1>1, NilAssumption DEF Definitions, KeysIn

\* No two names hold one key.
OneName(keys) == \A i, j \in KeyNames : keys[i] = keys[j] /\ keys[i] # Nil => i = j

LEMMA KeyTakenOut ==
  ASSUME NEW keys \in Definitions, OneName(keys), NEW k \in KeyNames
  PROVE  LET rest == [keys EXCEPT ![k] = Nil] IN
           /\ rest \in Definitions /\ OneName(rest)
           /\ KeysIn(rest) = KeysIn(keys) \ {keys[k]}
BY DEF Definitions, OneName, KeysIn

LEMMA KeyPutIn ==
  ASSUME NEW keys \in Definitions, NEW k \in KeyNames, NEW key \in Keys,
         OneName(keys), keys[k] = Nil, key \notin KeysIn(keys),
         NEW more, more = [keys EXCEPT ![k] = key]
  PROVE  /\ more \in Definitions /\ OneName(more)
         /\ KeysIn(more) = KeysIn(keys) \union {key}
<1>1. key # Nil
  BY NilAssumption, BoundsAssumption DEF Keys
<1> QED
  BY <1>1 DEF Definitions, OneName, KeysIn

\* A key is made once, and held under one name.
KeysOnce ==
  \A a \in Accounts : accounts[a] # Nil => KeysIn(accounts[a]) \subseteq 1 .. made /\ OneName(accounts[a])

\* Changes of an account do not overlap, so the definition one of them read is the
\* account's until it writes, and the name of a key to be added is free.
ReadIsCurrent ==
  \A t \in Administrators :
    /\ apc[t] \in {"deleteKey", "addKey"} => definition[t] = accounts[account[t]]
    /\ apc[t] = "addKey" => definition[t][keyName[t]] = Nil

ChangesApart ==
  \A s, t \in Administrators : s # t /\ apc[s] # "idle" /\ apc[t] # "idle" => account[s] # account[t]

ToldInv ==
  /\ TypeInv /\ KeysOnce /\ ReadIsCurrent /\ ChangesApart
  /\ \A a \in Accounts : told[a] = IF accounts[a] = Nil THEN {} ELSE KeysIn(accounts[a])

LEMMA ToldInit == Init => ToldInv
<1> SUFFICES ASSUME Init PROVE ToldInv
  OBVIOUS
<1>1. TypeInv
  BY TypeInit
<1> QED
  BY <1>1 DEF Init, ToldInv, KeysOnce, ReadIsCurrent, ChangesApart

\* What ends a request of an administrator, whose account alone it changed
LEMMA EndKeepsChanges ==
  ASSUME ToldInv, TypeInv', NEW t \in Administrators, AdminEnds(t), apc[t] # "idle",
         NEW row \in Definitions \union {Nil}, accounts' = [accounts EXCEPT ![account[t]] = row]
  PROVE  ReadIsCurrent' /\ ChangesApart'
<1> USE DEF ToldInv, TypeInv, TypeOK, AdminsInHand, AdminEnds
<1>1. account[t] \in Accounts
  OBVIOUS
<1>2. ASSUME NEW s \in Administrators, apc'[s] # "idle"
      PROVE  /\ s # t /\ apc'[s] = apc[s] /\ account'[s] = account[s]
             /\ definition'[s] = definition[s] /\ keyName'[s] = keyName[s]
             /\ account[s] # account[t] /\ accounts'[account[s]] = accounts[account[s]]
  <2>1. s # t /\ apc'[s] = apc[s] /\ account'[s] = account[s]
    BY <1>2
  <2>2. definition'[s] = definition[s] /\ keyName'[s] = keyName[s]
    BY <1>2, <2>1
  <2>3. account[s] # account[t] /\ account[s] \in Accounts
    BY <1>2, <2>1 DEF ChangesApart
  <2> QED
    BY <1>1, <2>1, <2>2, <2>3
<1>3. ReadIsCurrent'
  BY <1>2 DEF ReadIsCurrent
<1>4. ChangesApart'
  BY <1>2 DEF ChangesApart
<1> QED
  BY <1>3, <1>4

LEMMA ToldNext ==
  ASSUME ChangesInTime, ToldInv, [Next]_vars
  PROVE  ToldInv'
<1> USE BoundsAssumption, KeyNamesAssumption
    DEF ToldInv, TypeInv, TypeOK, AdminsInHand
<1>t. TypeInv'
  BY TypeNext
<1>1. ASSUME NEW a \in Accounts, CreateAccount(a)
      PROVE  ToldInv'
  <2> DEFINE keys == [k \in KeyNames |->
               CASE k = "primary" -> made + 1 [] k = "secondary" -> made + 2 [] OTHER -> Nil]
  <2>1. /\ accounts[a] = Nil /\ made' = made + 2 /\ accounts' = [accounts EXCEPT ![a] = keys]
        /\ told' = [told EXCEPT ![a] = {made + 1, made + 2}]
        /\ made \in Nat /\ made + 2 <= MaxKeys
        /\ UNCHANGED <<apc, account, definition, keyName>>
    BY <1>1 DEF CreateAccount, admins
  <2>2. made + 1 # Nil /\ made + 2 # Nil /\ made + 1 # made + 2
    BY <2>1, NilAssumption
  <2>3. KeysIn(keys) = {made + 1, made + 2} /\ OneName(keys) /\ keys \in Definitions
    BY <2>1, <2>2 DEF KeysIn, OneName, WellKnownKeyNames, Definitions, Keys
  <2>4. keys # Nil
    BY <2>3, DefinitionIsARow
  <2> HIDE DEF keys
  <2>5. KeysOnce'
    <3> SUFFICES ASSUME NEW b \in Accounts, accounts'[b] # Nil
                 PROVE  KeysIn(accounts'[b]) \subseteq 1 .. made' /\ OneName(accounts'[b])
      BY DEF KeysOnce
    <3>1. CASE b = a
      BY <3>1, <2>1, <2>3
    <3>2. CASE b # a
      BY <3>2, <2>1 DEF KeysOnce
    <3> QED
      BY <3>1, <3>2
  <2>6. ReadIsCurrent'
    <3>1. ASSUME NEW t \in Administrators, apc[t] \in {"deleteKey", "addKey"}
          PROVE  accounts'[account[t]] = accounts[account[t]]
      <4>1. definition[t] # Nil /\ account[t] \in Accounts /\ definition[t] = accounts[account[t]]
        BY <3>1, DefinitionIsARow DEF ReadIsCurrent
      <4> QED
        BY <4>1, <2>1
    <3> QED
      BY <3>1, <2>1 DEF ReadIsCurrent
  <2>7. ChangesApart'
    BY <2>1 DEF ChangesApart
  <2>8. \A b \in Accounts : told'[b] = IF accounts'[b] = Nil THEN {} ELSE KeysIn(accounts'[b])
    BY <2>1, <2>3, <2>4
  <2> QED
    BY <1>t, <2>5, <2>6, <2>7, <2>8
<1>2. ASSUME NEW a \in Accounts, NEW t \in Administrators,
             \/ StartDeleteAccount(t, a)
             \/ \E k \in KeyNames : StartAddNewKey(t, a, k) \/ StartDeleteAccountKey(t, a, k)
      PROVE  ToldInv'
  <2>1. PICK label \in {"listQueues", "deleteKey", "addKey"} :
          /\ LookupAccount(t, a, label)
          /\ \/ label = "listQueues" /\ UNCHANGED keyName
             \/ \E k \in KeyNames : /\ keyName' = [keyName EXCEPT ![t] = k]
                                    /\ label = "addKey" => accounts[a][k] = Nil
    BY <1>2 DEF StartDeleteAccount, StartAddNewKey, StartDeleteAccountKey
  <2>2. /\ \A s \in Administrators : account[s] # a
        /\ apc' = [apc EXCEPT ![t] = label] /\ account' = [account EXCEPT ![t] = a]
        /\ definition' = [definition EXCEPT ![t] = accounts[a]]
        /\ UNCHANGED <<accounts, made, told>>
    BY <2>1 DEF LookupAccount
  <2>3. \A s \in Administrators \ {t} :
          /\ apc'[s] = apc[s] /\ account'[s] = account[s]
          /\ definition'[s] = definition[s] /\ keyName'[s] = keyName[s]
    BY <2>1, <2>2
  <2>4. apc'[t] = label /\ account'[t] = a /\ definition'[t] = accounts[a]
    BY <2>2
  <2>5. label = "addKey" => definition'[t][keyName'[t]] = Nil
    BY <2>1, <2>4
  <2>6. ReadIsCurrent'
    BY <2>2, <2>3, <2>4, <2>5 DEF ReadIsCurrent
  <2>7. ChangesApart'
    BY <2>2, <2>3, <2>4 DEF ChangesApart
  <2>8. KeysOnce'
    BY <2>2 DEF KeysOnce
  <2> QED
    BY <1>t, <2>2, <2>6, <2>7, <2>8
<1>3. ASSUME NEW t \in Administrators, DeleteAccountKey(t)
      PROVE  ToldInv'
  <2> DEFINE a == account[t]
             k == keyName[t]
             rest == [accounts[a] EXCEPT ![k] = Nil]
  <2>1. /\ a \in Accounts /\ k \in KeyNames /\ accounts[a] \in Definitions
        /\ definition[t] = accounts[a] /\ accounts[a] # Nil
    BY <1>3, DefinitionIsARow DEF DeleteAccountKey, ReadIsCurrent
  <2>2. /\ accounts' = [accounts EXCEPT ![a] = rest]
        /\ told' = [told EXCEPT ![a] = @ \ {accounts[a][k]}]
        /\ made' = made /\ AdminEnds(t) /\ apc[t] # "idle"
    BY <1>3, <2>1 DEF DeleteAccountKey
  <2>3. OneName(accounts[a])
    BY <2>1 DEF KeysOnce
  <2>4. /\ rest \in Definitions /\ OneName(rest)
        /\ KeysIn(rest) = KeysIn(accounts[a]) \ {accounts[a][k]}
    BY <2>1, <2>3, KeyTakenOut
  <2>5. rest # Nil
    BY <2>4, DefinitionIsARow
  <2> HIDE DEF a, k, rest
  <2>6. KeysOnce'
    BY <2>1, <2>2, <2>4 DEF KeysOnce
  <2>7. ReadIsCurrent' /\ ChangesApart'
    BY <1>t, <2>2, <2>4, EndKeepsChanges DEF a
  <2>8. \A b \in Accounts : told'[b] = IF accounts'[b] = Nil THEN {} ELSE KeysIn(accounts'[b])
    BY <2>1, <2>2, <2>4, <2>5
  <2> QED
    BY <1>t, <2>6, <2>7, <2>8
<1>4. ASSUME NEW t \in Administrators, AddNewKey(t)
      PROVE  ToldInv'
  <2> DEFINE a == account[t]
             k == keyName[t]
             key == made + 1
             more == [accounts[a] EXCEPT ![k] = key]
  <2>1. /\ a \in Accounts /\ k \in KeyNames /\ accounts[a] \in Definitions
        /\ definition[t] = accounts[a] /\ accounts[a] # Nil /\ accounts[a][k] = Nil
    BY <1>4, DefinitionIsARow DEF AddNewKey, ReadIsCurrent
  <2>2. /\ accounts' = [accounts EXCEPT ![a] = more]
        /\ told' = [told EXCEPT ![a] = @ \union {key}]
        /\ made' = made + 1 /\ made < MaxKeys /\ made \in Nat /\ AdminEnds(t) /\ apc[t] # "idle"
    BY <1>4, <2>1 DEF AddNewKey
  <2>3. OneName(accounts[a]) /\ KeysIn(accounts[a]) \subseteq 1 .. made
    BY <2>1 DEF KeysOnce
  <2>4. key \in Keys /\ key \notin KeysIn(accounts[a]) /\ key = made'
    BY <2>2, <2>3 DEF Keys
  <2> HIDE DEF a, k, key
  <2>5. more \in Definitions /\ OneName(more) /\ KeysIn(more) = KeysIn(accounts[a]) \union {key}
    <3>1. more = [accounts[a] EXCEPT ![k] = key]
      OBVIOUS
    <3> HIDE DEF more
    <3>2. accounts[a] \in Definitions /\ OneName(accounts[a]) /\ accounts[a][k] = Nil /\ k \in KeyNames
      BY <2>1, <2>3
    <3> QED
      BY <2>4, <3>1, <3>2, KeyPutIn
  <2>6. more # Nil
    BY <2>5, DefinitionIsARow
  <2> HIDE DEF more
  <2>7. KeysOnce'
    <3> SUFFICES ASSUME NEW b \in Accounts, accounts'[b] # Nil
                 PROVE  KeysIn(accounts'[b]) \subseteq 1 .. made' /\ OneName(accounts'[b])
      BY DEF KeysOnce
    <3>1. CASE b = a
      BY <3>1, <2>1, <2>2, <2>3, <2>4, <2>5
    <3>2. CASE b # a
      BY <3>2, <2>1, <2>2 DEF KeysOnce
    <3> QED
      BY <3>1, <3>2
  <2>8. ReadIsCurrent' /\ ChangesApart'
    BY <1>t, <2>2, <2>5, EndKeepsChanges DEF a
  <2>9. \A b \in Accounts : told'[b] = IF accounts'[b] = Nil THEN {} ELSE KeysIn(accounts'[b])
    BY <2>1, <2>2, <2>5, <2>6
  <2> QED
    BY <1>t, <2>7, <2>8, <2>9
<1>5. ASSUME NEW t \in Administrators, DeleteAccount(t)
      PROVE  ToldInv'
  <2>1. /\ account[t] \in Accounts /\ AdminEnds(t) /\ apc[t] # "idle" /\ made' = made
        /\ accounts' = [accounts EXCEPT ![account[t]] = Nil]
        /\ told' = [told EXCEPT ![account[t]] = {}]
    BY <1>5 DEF DeleteAccount
  <2>2. ReadIsCurrent' /\ ChangesApart'
    BY <1>t, <2>1, EndKeepsChanges
  <2>3. KeysOnce'
    BY <2>1 DEF KeysOnce
  <2> QED
    BY <1>t, <2>1, <2>2, <2>3
<1>6. ASSUME NEW t \in Administrators, SubmitJobs(t)
      PROVE  ToldInv'
  BY <1>6, <1>t DEF SubmitJobs, KeysOnce, ReadIsCurrent, ChangesApart
<1>7. ASSUME UNCHANGED <<accounts, admins, made, told>>
      PROVE  ToldInv'
  BY <1>7, <1>t DEF admins, KeysOnce, ReadIsCurrent, ChangesApart
<1> QED
  BY <1>1, <1>2, <1>3, <1>4, <1>5, <1>6, <1>7
  DEF Next, vars, GenerateAuthUrl, Authenticate, Perform, RunJob, Tick

LEMMA ToldMeansKeys == ToldInv => KeysAsTold
BY DEF ToldInv, KeysAsTold, KeysOf, KeysIn

\* The keys that open an account are those its administrators were told are valid, if
\* changes of an account do not overlap: a change that writes the whole map of keys
\* (AccountRepository.updateAccount) writes the one that is there.
THEOREM KeysAsToldAlways == ASSUME ChangesInTime PROVE Spec => []KeysAsTold
<1>1. ToldInv /\ [Next]_vars => ToldInv'
  BY ToldNext
<1> QED
  BY <1>1, ToldInit, ToldMeansKeys, PTL DEF Spec

-----------------------------------------------------------------------------
(* What a signed URL is good for *)

\* The levels that are verified are the ones that were signed, unless "None" is among
\* them: then none is verified, and some were signed.
LEMMA LevelsAsSigned ==
  ASSUME NEW levels \in AskedLevels
  PROVE  ParseLevels(levels) = levels <=> "None" \notin levels
BY LevelsAssumption DEF ParseLevels

LEMMA SignatureMatches ==
  ASSUME NEW u \in Url, NEW a, NEW key
  PROVE  Signature(u) = [key |-> key, signed |-> StringToSign(a, ParseLevels(u.levels), u)]
           <=> key = u.key /\ a = u.account /\ "None" \notin u.levels
<1>1. u.levels \in AskedLevels
  BY DEF Url
<1>2. StringToSign(u.account, u.levels, u) = StringToSign(a, ParseLevels(u.levels), u)
        <=> a = u.account /\ ParseLevels(u.levels) = u.levels
  BY DEF StringToSign
<1>3. Signature(u) = [key |-> key, signed |-> StringToSign(a, ParseLevels(u.levels), u)]
        <=> /\ key = u.key
            /\ StringToSign(u.account, u.levels, u) = StringToSign(a, ParseLevels(u.levels), u)
  BY DEF Signature
<1> QED
  BY <1>1, <1>2, <1>3, LevelsAsSigned

LEMMA TimeFrame ==
  ASSUME TypeOK, NEW u \in urls
  PROVE  RequestInAllowedTimeFrame(u)
           <=> (u.start # Nil => now > u.start) /\ (u.end # Nil => now < u.end)
<1>1. now \in Nat
  BY BoundsAssumption DEF TypeOK, Times
<1>2. u \in Url
  BY DEF TypeOK
<1>3. u.start \in AskedTimes \union {Nil} /\ u.end \in AskedTimes \union {Nil}
  BY <1>2 DEF Url
<1>4. u.start \in Nat \union {Nil} /\ u.end \in Nat \union {Nil}
  BY <1>3, TimesAssumption
<1> QED
  BY <1>1, <1>4 DEF RequestInAllowedTimeFrame

LEMMA GrantsFollow == TypeOK /\ KeysAsTold => UrlsGrantWhatWasAsked
<1> SUFFICES ASSUME TypeOK, KeysAsTold,
                    NEW u \in urls, NEW a \in Accounts, NEW op \in Operations, NEW q \in QueueNames
             PROVE  UrlAuthorized(u, a, op, q) <=>
                      /\ a = u.account /\ u.key \in told[a]
                      /\ op.level \in u.levels /\ "None" \notin u.levels
                      /\ u.start # Nil => now > u.start
                      /\ u.end # Nil => now < u.end
                      /\ u.queue # Nil => op.ofQueue /\ q = u.queue
  BY DEF UrlsGrantWhatWasAsked
<1>1. u \in Url /\ u.levels \in AskedLevels /\ KeysOf(a) = told[a]
  BY DEF TypeOK, KeysAsTold, Url
<1>2. (\E key \in KeysOf(a) :
         Signature(u) = [key |-> key, signed |-> StringToSign(a, ParseLevels(u.levels), u)])
      <=> a = u.account /\ u.key \in told[a] /\ "None" \notin u.levels
  BY <1>1, SignatureMatches
<1>3. (u.queue # Nil => u.queue = PathQueue(op, q))
      <=> (u.queue # Nil => op.ofQueue /\ q = u.queue)
  BY DEF PathQueue
<1>4. "None" \notin u.levels => ParseLevels(u.levels) = u.levels
  BY <1>1, LevelsAsSigned
<1> QED
  BY <1>2, <1>3, <1>4, TimeFrame DEF UrlAuthorized, UrlVerified

\* A URL is good for what was asked, and for nothing else, as long as the key it was
\* made with is one its administrators were told is valid.
THEOREM UrlsGrantWhatWasAskedAlways == ASSUME ChangesInTime PROVE Spec => []UrlsGrantWhatWasAsked
BY TypeCorrect, KeysAsToldAlways, GrantsFollow, PTL

-----------------------------------------------------------------------------
(* The queues of an account that is deleted *)

\* Who creates a queue found its account; nobody does while the account's row is about
\* to be deleted, and each of its queues has its job by then.
DeletionIsComplete ==
  /\ \A c \in Callers : cpc[c] = "createQueue" => accounts[request[c].account] # Nil
  /\ \A t \in Administrators : apc[t] = "deleteAccount" =>
       /\ \A c \in Callers : cpc[c] # "idle" => request[c].account # account[t]
       /\ \A q \in queues : q[1] = account[t] => q \in jobs

QueuesInv == TypeInv /\ QueuesHaveAccounts /\ DeletionIsComplete

LEMMA QueuesInit == Init => QueuesInv
<1> SUFFICES ASSUME Init PROVE QueuesInv
  OBVIOUS
<1>1. TypeInv
  BY TypeInit
<1> QED
  BY <1>1 DEF Init, QueuesInv, QueuesHaveAccounts, DeletionIsComplete

\* A step that leaves every row of an account and completes no deletion
LEMMA RowKeepsQueues ==
  ASSUME QueuesInv, UNCHANGED <<queues, jobs, cpc, request>>,
         \A a \in Accounts : accounts[a] # Nil => accounts'[a] # Nil,
         \A s \in Administrators : apc'[s] = "deleteAccount" =>
           apc[s] = "deleteAccount" /\ account'[s] = account[s]
  PROVE  QueuesHaveAccounts' /\ DeletionIsComplete'
<1> USE DEF QueuesInv, TypeInv
<1>1. \A c \in Callers : cpc[c] # "idle" => request[c].account \in Accounts
  BY DEF CallersInHand
<1>2. \A q \in queues : q[1] \in Accounts
  BY DEF TypeOK
<1>3. QueuesHaveAccounts'
  BY <1>2 DEF QueuesHaveAccounts
<1>4. DeletionIsComplete'
  BY <1>1 DEF DeletionIsComplete
<1> QED
  BY <1>3, <1>4

LEMMA QueuesNext ==
  ASSUME RequestsInTime, QueuesInv, [Next]_vars
  PROVE  QueuesInv'
<1> USE DEF QueuesInv
<1>t. TypeInv' /\ TypeInv /\ TypeOK
  BY TypeNext DEF TypeInv
<1>p. \A q \in queues : q \in Accounts \X QueueNames /\ q[1] \in Accounts
  BY <1>t DEF TypeOK
<1>1. ASSUME NEW a \in Accounts, CreateAccount(a)
      PROVE  QueuesHaveAccounts' /\ DeletionIsComplete'
  <2>1. \A b \in Accounts : accounts[b] # Nil => accounts'[b] # Nil
    BY <1>1, <1>t DEF CreateAccount, TypeOK
  <2> QED
    BY <1>1, <2>1, RowKeepsQueues DEF CreateAccount, admins, callers
<1>2. ASSUME NEW a \in Accounts, NEW t \in Administrators,
             \/ StartDeleteAccount(t, a)
             \/ \E k \in KeyNames : StartAddNewKey(t, a, k) \/ StartDeleteAccountKey(t, a, k)
      PROVE  QueuesHaveAccounts' /\ DeletionIsComplete'
  <2>1. PICK label \in {"listQueues", "deleteKey", "addKey"} : LookupAccount(t, a, label)
    BY <1>2 DEF StartDeleteAccount, StartAddNewKey, StartDeleteAccountKey
  <2>2. \A s \in Administrators : apc'[s] = "deleteAccount" =>
          apc[s] = "deleteAccount" /\ account'[s] = account[s]
    BY <2>1, <1>t DEF LookupAccount, TypeOK
  <2> QED
    BY <2>1, <2>2, RowKeepsQueues DEF LookupAccount, callers
<1>3. ASSUME NEW t \in Administrators, DeleteAccountKey(t) \/ AddNewKey(t)
      PROVE  QueuesHaveAccounts' /\ DeletionIsComplete'
  <2>1. /\ account[t] \in Accounts /\ keyName[t] \in KeyNames /\ definition[t] \in Definitions
        /\ AdminEnds(t) /\ UNCHANGED <<queues, jobs, cpc, request>>
    BY <1>3, <1>t DEF DeleteAccountKey, AddNewKey, TypeInv, AdminsInHand, callers
  <2>2. PICK row : row # Nil /\ accounts' = [accounts EXCEPT ![account[t]] = row]
    <3>1. CASE DeleteAccountKey(t)
      <4>1. [definition[t] EXCEPT ![keyName[t]] = Nil] \in Definitions
        BY <2>1 DEF Definitions
      <4> QED
        BY <3>1, <4>1, DefinitionIsARow DEF DeleteAccountKey
    <3>2. CASE AddNewKey(t)
      <4>1. made + 1 \in Keys
        BY <3>2, <1>t, BoundsAssumption DEF AddNewKey, TypeOK, Keys
      <4>2. [definition[t] EXCEPT ![keyName[t]] = made + 1] \in Definitions
        BY <2>1, <4>1 DEF Definitions
      <4> QED
        BY <3>2, <4>2, DefinitionIsARow DEF AddNewKey
    <3> QED
      BY <1>3, <3>1, <3>2
  <2>3. \A b \in Accounts : accounts[b] # Nil => accounts'[b] # Nil
    BY <2>2, <1>t DEF TypeOK
  <2>4. \A s \in Administrators : apc'[s] = "deleteAccount" =>
          apc[s] = "deleteAccount" /\ account'[s] = account[s]
    BY <2>1, <1>t DEF AdminEnds, TypeOK
  <2> QED
    BY <2>1, <2>3, <2>4, RowKeepsQueues
<1>4. ASSUME NEW t \in Administrators, SubmitJobs(t)
      PROVE  QueuesHaveAccounts' /\ DeletionIsComplete'
  <2>1. /\ apc' = [apc EXCEPT ![t] = "deleteAccount"] /\ account[t] \in Accounts
        /\ jobs' = jobs \union {<<account[t], q[2]>> : q \in queues}
        /\ \A c \in Callers : request[c] # Nil => request[c].account # account[t]
        /\ UNCHANGED <<accounts, queues, account, cpc, request>>
    BY <1>4, <1>t DEF SubmitJobs, callers, TypeInv, AdminsInHand
  <2>2. QueuesHaveAccounts'
    BY <2>1 DEF QueuesHaveAccounts
  <2>3. \A q \in queues : q[1] = account[t] => q \in jobs'
    <3> SUFFICES ASSUME NEW q \in queues, q[1] = account[t] PROVE q \in jobs'
      OBVIOUS
    <3>1. q = <<account[t], q[2]>>
      BY <1>p
    <3> QED
      BY <2>1, <3>1
  <2>4. \A c \in Callers : cpc[c] # "idle" => request[c].account # account[t]
    <3> SUFFICES ASSUME NEW c \in Callers, cpc[c] # "idle" PROVE request[c].account # account[t]
      OBVIOUS
    <3> QED
      BY <2>1, <1>t, NilAssumption DEF TypeInv, CallersInHand
  <2>5. DeletionIsComplete'
    BY <2>1, <2>3, <2>4, <1>t DEF DeletionIsComplete, TypeOK
  <2> QED
    BY <2>2, <2>5
<1>5. ASSUME NEW t \in Administrators, DeleteAccount(t)
      PROVE  QueuesHaveAccounts' /\ DeletionIsComplete'
  <2>1. /\ apc[t] = "deleteAccount" /\ account[t] \in Accounts /\ AdminEnds(t)
        /\ accounts' = [accounts EXCEPT ![account[t]] = Nil]
        /\ UNCHANGED <<queues, jobs, cpc, request>>
    BY <1>5, <1>t DEF DeleteAccount, callers, TypeInv, AdminsInHand
  <2>2. QueuesHaveAccounts'
    <3> SUFFICES ASSUME NEW q \in queues PROVE accounts'[q[1]] # Nil \/ q \in jobs
      BY <2>1 DEF QueuesHaveAccounts
    <3>1. CASE q[1] = account[t]
      BY <3>1, <2>1 DEF DeletionIsComplete
    <3>2. CASE q[1] # account[t]
      BY <3>2, <2>1, <1>p, <1>t DEF TypeOK, QueuesHaveAccounts
    <3> QED
      BY <3>1, <3>2
  <2>3. \A s \in Administrators : apc'[s] = "deleteAccount" =>
          apc[s] = "deleteAccount" /\ account'[s] = account[s]
    BY <2>1, <1>t DEF AdminEnds, TypeOK
  <2>4. \A c \in Callers : cpc[c] = "createQueue" => accounts'[request[c].account] # Nil
    <3> SUFFICES ASSUME NEW c \in Callers, cpc[c] = "createQueue"
                 PROVE  accounts'[request[c].account] # Nil
      OBVIOUS
    <3>1. request[c].account \in Accounts /\ request[c].account # account[t]
      BY <2>1, <1>t DEF TypeInv, CallersInHand, DeletionIsComplete
    <3> QED
      BY <3>1, <2>1, <1>t DEF TypeOK, DeletionIsComplete
  <2>5. DeletionIsComplete'
    BY <2>1, <2>3, <2>4 DEF DeletionIsComplete
  <2> QED
    BY <2>2, <2>5
<1>6. ASSUME NEW c \in Callers, NEW op \in Operations, NEW a \in Accounts, NEW q \in QueueNames,
             Authenticate(c, op, a, q)
      PROVE  QueuesHaveAccounts' /\ DeletionIsComplete'
  <2>1. /\ \A t \in Administrators : ~(apc[t] = "deleteAccount" /\ account[t] = a)
        /\ cpc' = [cpc EXCEPT ![c] = op.name]
        /\ request' = [request EXCEPT ![c] = [account |-> a, queue |-> q]]
        /\ UNCHANGED <<accounts, queues, jobs, apc, account>>
    BY <1>6 DEF Authenticate, admins
  <2>2. accounts[a] # Nil
    <3>1. KeysOf(a) # {}
      BY <1>6 DEF Authenticate, KeyAuthorized, RequestAuthorized, UrlAuthorized, UrlVerified
    <3> QED
      BY <3>1 DEF KeysOf
  <2>3. QueuesHaveAccounts'
    BY <2>1 DEF QueuesHaveAccounts
  <2>4. /\ request'[c].account = a
        /\ \A d \in Callers \ {c} : cpc'[d] = cpc[d] /\ request'[d] = request[d]
    BY <2>1, <1>t DEF TypeOK
  <2>5. DeletionIsComplete'
    BY <2>1, <2>2, <2>4 DEF DeletionIsComplete
  <2> QED
    BY <2>3, <2>5
<1>7. ASSUME NEW c \in Callers, Perform(c)
      PROVE  QueuesHaveAccounts' /\ DeletionIsComplete'
  <2> DEFINE queue == <<request[c].account, request[c].queue>>
  <2>1. /\ cpc[c] # "idle" /\ cpc' = [cpc EXCEPT ![c] = "idle"]
        /\ \A q \in queues' : q \in queues \/ (cpc[c] = "createQueue" /\ q = queue)
        /\ \A d \in Callers \ {c} : request'[d] = request[d]
        /\ UNCHANGED <<accounts, jobs, apc, account>>
    BY <1>7, <1>t DEF Perform, admins, TypeOK
  <2>2. \A q \in queues' : accounts[q[1]] # Nil \/ q \in jobs
    BY <2>1 DEF QueuesHaveAccounts, DeletionIsComplete
  <2>3. QueuesHaveAccounts'
    BY <2>1, <2>2 DEF QueuesHaveAccounts
  <2>4. \A d \in Callers : cpc'[d] # "idle" => d # c /\ cpc'[d] = cpc[d] /\ request'[d] = request[d]
    BY <2>1, <1>t DEF TypeOK
  <2>5. ASSUME NEW t \in Administrators, apc[t] = "deleteAccount"
        PROVE  \A q \in queues' : q[1] = account[t] => q \in jobs
    BY <2>1, <2>5 DEF DeletionIsComplete
  <2>6. DeletionIsComplete'
    BY <2>1, <2>4, <2>5 DEF DeletionIsComplete
  <2> QED
    BY <2>3, <2>6
<1>8. ASSUME NEW job \in jobs, RunJob(job)
      PROVE  QueuesHaveAccounts' /\ DeletionIsComplete'
  <2>1. /\ jobs' = jobs \ {job} /\ queues' = queues \ {job}
        /\ UNCHANGED <<accounts, apc, account, cpc, request>>
    BY <1>8 DEF RunJob, admins, callers
  <2> QED
    BY <2>1 DEF QueuesHaveAccounts, DeletionIsComplete
<1>9. ASSUME UNCHANGED <<accounts, queues, jobs, admins, callers>>
      PROVE  QueuesHaveAccounts' /\ DeletionIsComplete'
  BY <1>9 DEF admins, callers, QueuesHaveAccounts, DeletionIsComplete
<1> QED
  BY <1>t, <1>1, <1>2, <1>3, <1>4, <1>5, <1>6, <1>7, <1>8, <1>9 DEF Next, vars, GenerateAuthUrl, Tick

\* An account's queues are deleted with it, if none of them is created while that goes
\* on: a queue without an account has its job (AccountResource.deleteAccount).
THEOREM QueuesHaveAccountsAlways == ASSUME RequestsInTime PROVE Spec => []QueuesHaveAccounts
<1>1. QueuesInv /\ [Next]_vars => QueuesInv'
  BY QueuesNext
<1>2. QueuesInv => QueuesHaveAccounts
  BY DEF QueuesInv
<1> QED
  BY <1>1, <1>2, QueuesInit, PTL DEF Spec
=============================================================================
