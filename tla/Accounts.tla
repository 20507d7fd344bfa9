------------------------------ MODULE Accounts ------------------------------
(***************************************************************************)
(* Accounts, their keys and queues, and the requests made with them:       *)
(* AccountResource and PermissionsResource for administrators, and the     *)
(* authentication and authorization of a caller's request.                 *)
(*                                                                         *)
(* The keys of an account are one column, read and written as a whole.     *)
(* A signature is the pair of its key and of what it signs.  Of what a     *)
(* caller's request does, the creation and deletion of queues is modelled, *)
(* each in one step (their statements are in QueueLifecycle).              *)
(***************************************************************************)
EXTENDS Integers, FiniteSets

CONSTANTS
  Accounts,        \* account names
  KeyNames,        \* names of keys
  QueueNames,
  Administrators,  \* requests to AccountResource
  Callers,         \* requests to QueueResource
  AskedLevels,     \* the sets of levels a URL may be asked for
  AskedTimes,      \* the times a URL may be asked to start or end at
  Skew,            \* AuthConfig.allowedClockSkew
  ChangesInTime,   \* timing: the changes of an account do not overlap
  RequestsInTime,  \* timing: no queue of an account is created while it is being deleted
  MaxKeys,         \* bound: keys made
  MaxTime,         \* bound: the clock
  MaxUrls,         \* bound: URLs generated
  Nil              \* "no row", "no key", "no restriction"

WellKnownKeyNames == {"primary", "secondary"}

Levels == {"None", "ReadMessage", "PutMessage", "UpdateMessage", "AckMessage",
           "GetQueueInformation", "CreateQueue", "DeleteQueue"}

ASSUME KeyNamesAssumption == WellKnownKeyNames \subseteq KeyNames
ASSUME LevelsAssumption == AskedLevels \subseteq (SUBSET Levels) \ {{}}
ASSUME TimesAssumption == AskedTimes \subseteq Nat
ASSUME BoundsAssumption == {MaxKeys, MaxTime, MaxUrls, Skew} \subseteq Nat
ASSUME NilAssumption ==
  Nil \notin Nat \union [KeyNames -> Nat \union {Nil}] \union [account : Accounts, queue : QueueNames]
ASSUME TimingAssumption == {ChangesInTime, RequestsInTime} \subseteq BOOLEAN

VARIABLES
  accounts,  \* account: name |-> the keys by name, or Nil
  queues,    \* <<account, name>> of the active queues
  jobs,      \* <<account, name>> of the deletions an executor has been given
  now,
  urls,      \* the URLs generated
  (* administrators *)
  apc, account, definition, keyName,
  (* callers *)
  cpc, request,
  (* history *)
  made,      \* the number of keys made
  told       \* account |-> the keys its administrators were told are valid

admins == <<apc, account, definition, keyName>>
callers == <<cpc, request>>
vars == <<accounts, queues, jobs, now, urls, admins, callers, made, told>>

-----------------------------------------------------------------------------

Keys == 1 .. MaxKeys
Times == 0 .. MaxTime
Definitions == [KeyNames -> Keys \union {Nil}]

Url == [account : Accounts, levels : AskedLevels,
        start : AskedTimes \union {Nil}, end : AskedTimes \union {Nil}, queue : QueueNames \union {Nil}, key : Keys]

KeysOf(a) == IF accounts[a] = Nil THEN {} ELSE {accounts[a][k] : k \in KeyNames} \ {Nil}

Init ==
  /\ accounts = [a \in Accounts |-> Nil] /\ queues = {} /\ jobs = {} /\ now = 0 /\ urls = {}
  /\ apc = [t \in Administrators |-> "idle"]
  /\ account = [t \in Administrators |-> Nil]
  /\ definition = [t \in Administrators |-> Nil]
  /\ keyName = [t \in Administrators |-> Nil]
  /\ cpc = [c \in Callers |-> "idle"] /\ request = [c \in Callers |-> Nil]
  /\ made = 0 /\ told = [a \in Accounts |-> {}]

-----------------------------------------------------------------------------
(* AccountResource *)

AdminEnds(t) ==
  /\ apc' = [apc EXCEPT ![t] = "idle"]
  /\ account' = [account EXCEPT ![t] = Nil]
  /\ definition' = [definition EXCEPT ![t] = Nil]
  /\ keyName' = [keyName EXCEPT ![t] = Nil]

\* Fault: the map of keys holds the primary one alone.
CreateWithPrimaryOnly(a) ==
  /\ accounts[a] = Nil /\ made + 1 <= MaxKeys
  /\ made' = made + 1
  /\ accounts' = [accounts EXCEPT ![a] = [k \in {"primary"} |-> made + 1]]
  /\ told' = [told EXCEPT ![a] = {made + 1}]
  /\ UNCHANGED <<queues, jobs, now, urls, admins, callers>>

\* createAccount, if there is no row of that name
CreateAccount(a) ==
  /\ accounts[a] = Nil /\ made + 2 <= MaxKeys
  /\ made' = made + 2
  /\ accounts' = [accounts EXCEPT ![a] =
       [k \in KeyNames |-> CASE k = "primary" -> made + 1 [] k = "secondary" -> made + 2 [] OTHER -> Nil]]
  /\ told' = [told EXCEPT ![a] = {made + 1, made + 2}]
  /\ UNCHANGED <<queues, jobs, now, urls, admins, callers>>

\* lookupAccount, the first statement of the other requests
LookupAccount(t, a, label) ==
  /\ apc[t] = "idle" /\ accounts[a] # Nil
  /\ ChangesInTime => \A s \in Administrators : account[s] # a
  /\ apc' = [apc EXCEPT ![t] = label]
  /\ account' = [account EXCEPT ![t] = a]
  /\ definition' = [definition EXCEPT ![t] = accounts[a]]
  /\ UNCHANGED <<accounts, queues, jobs, now, urls, callers, made, told>>

StartDeleteAccountKey(t, a, k) ==
  /\ LookupAccount(t, a, "deleteKey")
  /\ keyName' = [keyName EXCEPT ![t] = k]

\* Fault: a key of that name is replaced.
StartReplaceKey(t, a, k) ==
  /\ LookupAccount(t, a, "addKey")
  /\ keyName' = [keyName EXCEPT ![t] = k]

\* A key of that name is a conflict.
StartAddNewKey(t, a, k) ==
  /\ LookupAccount(t, a, "addKey")
  /\ accounts[a][k] = Nil
  /\ keyName' = [keyName EXCEPT ![t] = k]

StartDeleteAccount(t, a) == LookupAccount(t, a, "listQueues") /\ UNCHANGED keyName

\* updateAccount: an update without a condition writes the whole map, and the row
\* with it if it is gone.
DeleteAccountKey(t) ==
  /\ apc[t] = "deleteKey"
  /\ LET a == account[t] IN
       /\ accounts' = [accounts EXCEPT ![a] = [definition[t] EXCEPT ![keyName[t]] = Nil]]
       /\ told' = [told EXCEPT ![a] = @ \ {definition[t][keyName[t]]}]
  /\ AdminEnds(t)
  /\ UNCHANGED <<queues, jobs, now, urls, callers, made>>

AddNewKey(t) ==
  /\ apc[t] = "addKey" /\ made < MaxKeys
  /\ made' = made + 1
  /\ LET a == account[t] IN
       /\ accounts' = [accounts EXCEPT ![a] = [definition[t] EXCEPT ![keyName[t]] = made + 1]]
       /\ told' = [told EXCEPT ![a] = @ \union {made + 1}]
  /\ AdminEnds(t)
  /\ UNCHANGED <<queues, jobs, now, urls, callers>>

\* Fault: no jobs for the queues.
ForgetQueues(t) ==
  /\ apc[t] = "listQueues"
  /\ apc' = [apc EXCEPT ![t] = "deleteAccount"]
  /\ UNCHANGED <<accounts, queues, jobs, now, urls, account, definition, keyName, callers, made, told>>

\* A job for each name getQueueNames finds, which asks for the queues of all accounts
SubmitJobs(t) ==
  /\ apc[t] = "listQueues"
  /\ RequestsInTime => \A c \in Callers : request[c] # Nil => request[c].account # account[t]
  /\ jobs' = jobs \union {<<account[t], q[2]>> : q \in queues}
  /\ apc' = [apc EXCEPT ![t] = "deleteAccount"]
  /\ UNCHANGED <<accounts, queues, now, urls, account, definition, keyName, callers, made, told>>

DeleteAccount(t) ==
  /\ apc[t] = "deleteAccount"
  /\ accounts' = [accounts EXCEPT ![account[t]] = Nil]
  /\ told' = [told EXCEPT ![account[t]] = {}]
  /\ AdminEnds(t)
  /\ UNCHANGED <<queues, jobs, now, urls, callers, made>>

\* QueueDeleter.delete in the executor; a queue the account does not have is an
\* exception that nobody sees.
RunJob(job) ==
  /\ job \in jobs
  /\ jobs' = jobs \ {job}
  /\ queues' = queues \ {job}
  /\ UNCHANGED <<accounts, now, urls, admins, callers, made, told>>

-----------------------------------------------------------------------------
(* Signed URLs: PermissionsResource, SignedUrlSignatureGenerator *)

StringToSign(a, levels, u) == <<a, levels, u.start, u.end, u.queue>>

\* generateAuthUrl signs the levels as they were asked.
Signature(u) == [key |-> u.key, signed |-> StringToSign(u.account, u.levels, u)]

GenerateAuthUrl(a, k) ==
  /\ accounts[a] # Nil /\ accounts[a][k] # Nil
  /\ Cardinality(urls) < MaxUrls
  /\ \E u \in Url : u.account = a /\ u.key = accounts[a][k] /\ urls' = urls \union {u}
  /\ UNCHANGED <<accounts, queues, jobs, now, admins, callers, made, told>>

\* Fault: "None" does not cancel the other levels.
ParseEachLevel(levels) == levels

\* AuthorizationLevel.parse: "None" among the levels leaves none.
ParseLevels(levels) == IF "None" \in levels THEN {} ELSE levels

-----------------------------------------------------------------------------
(* Authentication and authorization *)

\* What each method of QueueResource needs (its @AuthLevelRequired), and whether its
\* path names a queue
Operations ==
  {[name |-> "getAccountQueues", level |-> "GetQueueInformation", ofQueue |-> FALSE],
   [name |-> "getQueueDefinition", level |-> "GetQueueInformation", ofQueue |-> TRUE],
   [name |-> "getQueueStatistics", level |-> "GetQueueInformation", ofQueue |-> TRUE],
   [name |-> "createQueue", level |-> "CreateQueue", ofQueue |-> FALSE],
   [name |-> "deleteQueue", level |-> "DeleteQueue", ofQueue |-> TRUE],
   [name |-> "getMessage", level |-> "ReadMessage", ofQueue |-> TRUE],
   [name |-> "updateMessage", level |-> "UpdateMessage", ofQueue |-> TRUE],
   [name |-> "putMessage", level |-> "PutMessage", ofQueue |-> TRUE],
   [name |-> "ackMessage", level |-> "AckMessage", ofQueue |-> TRUE]}

\* The queue named in the path
PathQueue(op, q) == IF op.ofQueue THEN q ELSE Nil

\* Fault: the limits count as inside.
InclusiveTimeFrame(u) == (u.start # Nil => u.start <= now) /\ (u.end # Nil => now <= u.end)

RequestInAllowedTimeFrame(u) == (u.start # Nil => u.start < now) /\ (u.end # Nil => now < u.end)

\* SignedUrlAuthParameters.verify with one of the account's keys; the account and the
\* queue are those of the path.
UrlVerified(u, a, q) ==
  /\ \E key \in KeysOf(a) :
       Signature(u) = [key |-> key, signed |-> StringToSign(a, ParseLevels(u.levels), u)]
  /\ RequestInAllowedTimeFrame(u)
  /\ u.queue # Nil => u.queue = q

\* A request with a URL is authenticated, and its level is one of the URL's.
UrlAuthorized(u, a, op, q) ==
  UrlVerified(u, a, PathQueue(op, q)) /\ op.level \in ParseLevels(u.levels)

\* AccountKeyAuthParameters and SignedRequestAuthParameters: a key grants all levels;
\* the time of a signed request may be off by less than the skew.
KeyAuthorized(key, a) == key \in KeysOf(a)
RequestAuthorized(key, time, a) == key \in KeysOf(a) /\ now - Skew < time /\ time < now + Skew

\* The credentials are looked at once, before the request is carried out.
Authenticate(c, op, a, q) ==
  /\ cpc[c] = "idle"
  /\ op.name \in {"createQueue", "deleteQueue"}
  /\ RequestsInTime => \A t \in Administrators : ~(apc[t] = "deleteAccount" /\ account[t] = a)
  /\ \/ \E key \in 1 .. made : KeyAuthorized(key, a)
     \/ \E key \in 1 .. made, time \in Times : RequestAuthorized(key, time, a)
     \/ \E u \in urls : UrlAuthorized(u, a, op, q)
  /\ cpc' = [cpc EXCEPT ![c] = op.name]
  /\ request' = [request EXCEPT ![c] = [account |-> a, queue |-> q]]
  /\ UNCHANGED <<accounts, queues, jobs, now, urls, admins, made, told>>

Perform(c) ==
  /\ cpc[c] # "idle"
  /\ LET queue == <<request[c].account, request[c].queue>> IN
       queues' = IF cpc[c] = "createQueue" THEN queues \union {queue} ELSE queues \ {queue}
  /\ cpc' = [cpc EXCEPT ![c] = "idle"]
  /\ request' = [request EXCEPT ![c] = Nil]
  /\ UNCHANGED <<accounts, jobs, now, urls, admins, made, told>>

Tick ==
  /\ now < MaxTime
  /\ now' = now + 1
  /\ UNCHANGED <<accounts, queues, jobs, urls, admins, callers, made, told>>

-----------------------------------------------------------------------------

Next ==
  \/ \E a \in Accounts :
       \/ CreateAccount(a)
       \/ \E k \in KeyNames : GenerateAuthUrl(a, k)
       \/ \E t \in Administrators :
            \/ StartDeleteAccount(t, a)
            \/ \E k \in KeyNames : StartAddNewKey(t, a, k) \/ StartDeleteAccountKey(t, a, k)
       \/ \E c \in Callers, op \in Operations, q \in QueueNames : Authenticate(c, op, a, q)
  \/ \E t \in Administrators : DeleteAccountKey(t) \/ AddNewKey(t) \/ SubmitJobs(t) \/ DeleteAccount(t)
  \/ \E c \in Callers : Perform(c)
  \/ \E job \in jobs : RunJob(job)
  \/ Tick

Spec == Init /\ [][Next]_vars

-----------------------------------------------------------------------------
(* Properties *)

\* Accounts, queues, jobs, URLs and requests keep their types.
TypeOK ==
  /\ accounts \in [Accounts -> Definitions \union {Nil}]
  /\ queues \subseteq Accounts \X QueueNames /\ jobs \subseteq Accounts \X QueueNames
  /\ now \in Times /\ urls \subseteq Url
  /\ apc \in [Administrators -> {"idle", "deleteKey", "addKey", "listQueues", "deleteAccount"}]
  /\ account \in [Administrators -> Accounts \union {Nil}]
  /\ definition \in [Administrators -> Definitions \union {Nil}]
  /\ keyName \in [Administrators -> KeyNames \union {Nil}]
  /\ cpc \in [Callers -> {"idle", "createQueue", "deleteQueue"}]
  /\ request \in [Callers -> [account : Accounts, queue : QueueNames] \union {Nil}]
  /\ made \in 0 .. MaxKeys /\ told \in [Accounts -> SUBSET Keys]

\* The keys that open an account are those its administrators were told: a key that
\* was added or made is there until it is deleted, one that was deleted does not come
\* back, and neither does an account (AccountResource, AccountRepository.updateAccount).
KeysAsTold == \A a \in Accounts : KeysOf(a) = told[a]

\* A URL is good for what was asked, and for nothing else: on its account while the
\* key it was made with is there, strictly inside its window, for its queue or any,
\* for its levels.  One that was asked for "None" is good for nothing.
UrlsGrantWhatWasAsked ==
  \A u \in urls, a \in Accounts, op \in Operations, q \in QueueNames :
    UrlAuthorized(u, a, op, q) <=>
      /\ a = u.account /\ u.key \in told[a]
      /\ op.level \in u.levels /\ "None" \notin u.levels
      /\ u.start # Nil => now > u.start
      /\ u.end # Nil => now < u.end
      /\ u.queue # Nil => op.ofQueue /\ q = u.queue

\* "Deleting an account will also kick off jobs to delete all related queues"
\* (AccountResource.deleteAccount): a queue without an account is going to be deleted.
QueuesHaveAccounts == \A q \in queues : accounts[q[1]] # Nil \/ q \in jobs
=============================================================================
