# TLA+ models of the Solana accounting backend

The backend keeps, per user, the Solana accounts the user cares about and copies
the transactions of those accounts from the chain into a Neo4j graph. This
directory holds TLA+ models of it, TLC configurations that check them on small
instances, and TLAPS proofs.

## 1. Inventory of the system

| component | code | state | operations | hard behaviour |
|---|---|---|---|---|
| Account service (API) | `apps/api/src/account` | `account` and `task` nodes, locals of a request across awaits | create, sync, resync, update, delete, list, tasks | requests overlap; check-then-act; database written before Kafka is |
| Collector (3 replicas) | `apps/collector` | the message in hand | `processSignature` | Kafka redelivers; the exists check reads what the keeper has not written yet; an error counts as success |
| Keeper (3 replicas) | `apps/keeper` | running jobs | `processQuery` | acknowledged before it ran; jobs interleave; a failed query ends its job silently |
| Task progress (API) | `apps/api/src/task` | none (reads tasks) | `getProgress` | what a client polls |
| Transaction service | `libs/main` | `transaction`, `transaction_account` nodes | build the store query, find, store | needs a price in Redis |
| Price service | `apps/price` | Redis, date to price | fetch at start and by cron | late or failing fetches |
| Web3 service | `libs/core/services/web3.service.ts` | none | RPC calls | one page of signatures per answer |
| Sign-in, tags, groups | `apps/api/src/user`, `tag`, `group` | `user`, `tag`, `group` nodes | create if not exist, list, update, delete | check-then-create without uniqueness constraints |
| Address book | `apps/api/src/address-book` | `addressBook` nodes and relations | create, list, update, delete | relations written and never read, silent no-ops |
| Categories | `apps/api/src/category` | a tree under each user | init, create, list, update, delete | bounded path length, check-then-act on a tree |
| Helpers | `libs/core/utils` | none | string builders, `chunk` | all but `clearStringify` are reached from no endpoint |
| Timeout interceptor | `libs/core/interceptors` | none | answers any request after an hour | the handler it gives up on goes on |
| Developer endpoints, profile, DTOs, bootstrap | | none of their own | | not modelled |

How they interact. A request to the API lists the signatures of an address, sets
the account's task (`amount`, `progress`, `syncedSignatures`) and sends one Kafka
message per new signature (`collector.process.signature`). A collector turns a
message into two to four Cypher queries and sends them as one message
(`keeper.process.query`). A keeper runs the queries: create the transaction, add
to `transferCount`, add to `progress`, and stamp the account when
`amount = progress`. The three services share the database and nothing else;
no uniqueness constraint exists and no transaction spans two queries.

What makes it correct: progress tells the truth, a finished task has its
transactions exactly once, every task finishes, repeating a sync at any time does
no harm, one account per user and address.

## 2. Modules

| module | models | built from |
|---|---|---|
| `SyncGraph` | database, topics, chain; the four queries a keeper runs | |
| `AccountSync` | the API's account requests, one action per query, RPC call or send | `SyncGraph` |
| `Collector` | `processSignature` | `SyncGraph` |
| `Keeper` | `processQuery` | `SyncGraph` |
| `SyncPipeline` | all of them together, chain growth, prices, three kinds of clients, the properties | the four above |
| `SyncLedger` | abstract: a signature is promised, pending, entered at most once, settled | |
| `SyncRefinement` | the refinement mapping from the pipeline to `SyncLedger` | `SyncPipeline`, `SyncLedger` |
| `Portfolio` | several addresses of one user: account requests, transactions stored by hand, `GET /transaction` | |
| `CategoryTree` | `CategoryService`: the tree, its bounded paths, overlapping requests | |
| `CategoryHistory` | the tree with a history variable, and the property that needs it | `CategoryTree` |
| `Workspace` | users, tags, groups, address books, accounts and their relations; what a request is | |
| `Registry` | sign-in, `mergeTag`, the group requests | `Workspace` |
| `AccountBook` | create, update and delete of accounts and address books | `Registry` |
| `UserWorkspace` | all of them under two kinds of clients, the properties | `AccountBook` |
| `EditHistory` | the workspace with the updates remembered that overlapped another | `UserWorkspace` |
| `MCSyncPipeline`, `MCPortfolio`, `MCCategoryTree`, `MCUserWorkspace`, `MCEditHistory` | symmetry and order of requests for TLC | |
| `SyncPipelineProofs` | theorems about the pipeline for any client: types, what is stored and counted | `SyncPipeline` |
| `SerialProofs` | for clients that wait for answers: one message, one delivery, one transaction | `SyncPipelineProofs` |
| `ProgressProofs` | what is on its way to a task and its progress | `SerialProofs` |
| `CalmProofs` | for clients that wait until their tasks are settled; the ledger | `ProgressProofs`, `SyncRefinement` |
| `PortfolioProofs`, `CategoryTreeProofs` | theorems about the portfolio and the tree | |
| `WorkspaceProofs` | theorems about a workspace whose clients wait, or whose requests overlap | `UserWorkspace` |
| `AsWrittenProofs` | what an account and an address book carry when requests overlap | `WorkspaceProofs`, `EditHistory` |

The pipeline, the tree and the workspace share no relation the others read, with
one exception: an account's address, which `AccountBook` can change and `AccountSync`
takes as fixed. `Portfolio` has both, an account with a task that gets another
address, at a coarser grain.

### The pipeline: state and actions against the code

One user and one address: no query of the pipeline touches tasks of another
address or user, with the one exception `ForeignAccount` (the check of
`reSyncAccountByAddress` accepts an account of any user).

* `accounts`, `tasks`, `stored`: the nodes. An account is named by the request that
  created it, a task by the request and the account it hangs on, a transaction by
  its position in the address's history; `stored[n][s]` counts the transaction nodes
  with that signature on task `n`. Deleting an account leaves its tasks.
* `req[r].pc` is the next await of request `r`; `sigs`, `known` and `tid` are
  `signatures`, `syncedSignatures` and `taskId` of `syncSignatures`. JavaScript's
  truthiness (`amount && progress`) is in `InProcess`.
* `signatureTopic`, `queryTopic` are sets: keys spread the messages over partitions,
  so no order is guaranteed. `fetched` and `received` are what a consumer took
  since it started; a crash hands any of it back, since offsets are committed
  at the end of a batch. A message in a collector's hand always comes back,
  because the collector's handler is awaited; the job of a keeper need not,
  because the keeper's is not.
* A delivery is `store` (four queries) or `skip` (two); the text of the queries is
  abstracted to which of them are there. A transfer without sender or receiver is
  processed as a transaction that is no transfer, so `Transfers` leaves it out.
* Each keeper query is one atomic action: the increments read and write one node
  under the write lock Neo4j takes for `SET p = p + 1`.
* `priced`: the days of positions `1 .. priced` are in Redis. Prices are kept for
  ever and fetched from the past on, so the missing ones are the newest.
* A failed handler step happens before its effect; failing after the effect is the
  same as failing at the next step. A send that fails may have been accepted in part.

`AccountSync` joins the on-chain lookup (`getAccountInfo`) with a request that
fails, as it changes nothing.

### The ledger

`SyncLedger` says what a synchronisation promises for one address, without requests,
tasks or services: a signature is promised once (`syncedSignatures`), is pending until
it is counted, and its transaction enters the user's graph at most once, while it is
pending, and before it is counted if it is sure to have a price. `SyncRefinement` maps the
pipeline onto it: `Pending` is what is on its way in any of the places a signature can
be (the locals of a request that is about to send, a topic, a collector's hand, a
keeper's job that has not incremented yet), `Entered` the transactions on the tasks of
the account. The abstract liveness is a leads-to and no fairness of an abstract
action, so that TLC can check it through the mapping.

### The portfolio

`Portfolio` asks what the pipeline cannot with its one address: whether what is synced is
what `GET /transaction` lists, when an address has been moved from one account to another
(`PUT /account` sets the address and leaves the task with its `syncedSignatures`), when
one transfer concerns two addresses of the user, and when the same transactions are
stored by hand (`POST /transaction/store`, `/sync`), which hang on no task. `parties[s]` is
the set of addresses transaction `s` concerns; `onTask[a][s]` counts its nodes on the
task of account `a`, `loose[s]` those on none. Its client waits for each answer and, for
an account, until nothing is under way; so a handler of `AccountService` is one action,
and so are collector and keeper on a message. The requests by hand are one action per
transaction, as a missing price ends them half done; `awaited` is the one whose answer
the client waits for. `TimeOut` is `TimeoutInterceptor`: the client has its answer, the
handler goes on, and anything may run beside it, another sync by hand too. All
transactions are transfers; date filter and the shape of the rows are left out.

### The category tree

`up` is HAS_CATEGORY turned round: a category has one parent, as it is created with it and
never moved, or `None` once the parent has been deleted without it. `label[c]` is the
request that wrote the properties of `c` last. A request is one `pc`: the check
(`CheckCategory`, three times the same query), then the writing query, which repeats the
check's path where the code does (`updateById`, `deleteById`) and does not where it does
not (`createCategory`, whose `MATCH (parent: category {id})` has no user). The two that
repeat it are two actions each (below): `MatchCategory` and `UpdateById`, `MatchSubtree`
and `DeleteById`, with `gone` for what the delete has matched. A category id a client names
is one that existed when it was named. The code follows five relations, the runs
two (`Hops`). `CategoryHistory` adds `late`, the categories made below one in some `gone`.

### The workspace

One public key. `users` may hold several nodes all the same, and a token carries the
id of one of them, which only the `ownerId` of HAS_TAG distinguishes: every other query
goes by public key. `accounts[a].data` and `books[b]` name the request that wrote the
node last and stand for its properties. The relations from users (`HAS_ACCOUNT`,
`Owner`, `HAS_GROUP` of a user) reach every node of the user and are left out. A
request checks (`pc` from `new`) and writes (`write`, then `matched` and `set` where the
writing query is more than one action); the read that shapes its answer
changes nothing and is part of the write, `failed` when it throws. `seen[r]` is what the
MATCH of a writing query has found: the relations an update is going to delete, the accounts
an address book is going to be related to. A relation is named by its ends, and MERGE
takes the one there is; so when a write deletes a relation and makes one between the same
ends, `Forget` takes it out of what others have seen, who can only delete the old one. Clients name ids
they were told of (`Made`), whether the node is still there or not. Contact data,
paging, the `me` and `groups` filters of the listings and JSON are left out.

### Queries and transactions

Every `session.run` of tree and workspace is a transaction of its own. Neo4j reads what is
committed, without locks, and locks what it writes until the end of the transaction. So a
query is one action from its first write on, and what it matched before that may be
stale:

* An update or a deletion that writes or deletes more than the one node it names, or follows
  a path to it, is two actions, MATCH and write: `updateById` of accounts, address books
  and categories, `deleteById` of categories, `createAddressBook` with an address. A write to a
  node that has been deleted since the MATCH throws, and nothing of the query stays.
* In `updateById` of address books SET comes last. If the DELETE and the MERGEs before it
  changed no relation of the address book, nothing is locked when SET is reached, and SET is
  an action of its own (`SetBook`). `updateById` of accounts starts with SET, which locks the account.
* The others are one action, as nothing between their MATCH and their write could change
  what they do: they create (`createAccount`, `createCategory`, `createUser`, `mergeTag`,
  `mergeGroup`; a node they matched and that is gone makes them fail either way), MERGE under a
  node they lock (`initCategories`, the roots under the user), or write or delete with all
  its relations the one node they name (groups, accounts, address books), which locks it first.

Coarser than this: a MATCH with its OPTIONAL MATCHes reads at one instant, and the labels of
one FOREACH are one step. Two transactions that MERGE one tag label at the same time may
make two tags, as no constraint forbids it; in the runs with overlap duplicates come from
`mergeTag`, and the properties of these runs go by label.

## 3. Clients and fairness

Of the tree: `Spec`, requests overlap freely, and `HistorySpec`, the same with its history.
Of the workspace: `ApartSpec`, they overlap,
but no sign-in starts while another is about to create, so that there is one user node
(with two, an update leaves the tags of the other's `ownerId` in place), and `EditSpec`, the
same with its history; `SerialSpec`, one request at a time. There
is no fairness, as there is no liveness to speak of: a request ends after two queries.

Of the pipeline:

* `Spec`: requests overlap freely.
* `SerialSpec`: a request starts when no other is being answered, at any point of
  the pipeline behind it.
* `CalmSpec`: the client also waits until `GET /task/progress` has every task at 0.
  No failures.

A client whose request the interceptor answers in the handler's place no longer waits
for the handler: it is one of `Spec`.

Of the portfolio: `Spec`, the patient client of section 2. It gives an account no
address it has an account for (behaviours, section 4).

Fairness is weak, per request, per collector and for the keepers: the event loop runs
every ready continuation and Kafka delivers to a living consumer. Nothing is
assumed of clients, chain growth or price fetches. Failures are never fair
and bounded by `MaxFaults`.

## 4. Runs

Every passing run explores all states of its instance. Behaviours end when all
requests are answered and the topics are empty, hence `CHECK_DEADLOCK FALSE`.

| run | instance | what it shows |
|---|---|---|
| `storm` | `Spec`, 2 requests, history 1, any one failure | types; `transferCount` never runs ahead of the transactions |
| `calm` | `CalmSpec`, fair, 3 requests, history 2 | `progress` is exact at every step; completion implies transactions, count and stamp; progress never falls; every sync completes; the pipeline implements `SyncLedger` |
| `serial` | `SerialSpec`, 2 requests, history 3 with pages of 2, one API failure | repeating a sync mid-way never stores a transaction twice, also beyond the page |
| `redelivery` | `SerialSpec`, fair, 1 request, 2 collectors, history 2, no price at first, one crash | at least once: nothing uncounted, everything counted in the end, nothing stored without its price |
| `portfolio` | 3 accounts or syncs, timeouts, any moves and deletions, 2 addresses, history 3 with pages of 2, transactions by hand | what is synced is listed for the account's address, and once |
| `categories` | 6 overlapping requests, 2 roots, paths of 2 | `GET /category` shows every category, but for those at or below one that was made while its parent was being deleted; roots are made once |
| `edits` | `ApartSpec`, 5 overlapping requests of 11 kinds, 2 labels | an account or address book carries the relations of its last write, and no others unless that write and another update had both matched it before either wrote; an address book made for an account comes with it |
| `one_client` | `SerialSpec`, 5 requests, no `updateAccount` and `updateGroup` | nothing is made twice |

Bounds. Two requests are the least that race, three the least that sync, delete
and sync again, or sync twice after a growth. Two positions are the least that
make a task go through `0 < progress < amount`; with one position `storm` still has
duplicates, races and retries of it. Two collectors are the least that process one
task in parallel; without redelivery they never hold the same signature, so `calm` does
with one, and `serial` too. One keeper runs any number of jobs in parallel by itself, a
second one only matters for what a crash takes along. A history of three with pages of two
is the least in which a signature leaves the page before it was synced, and one in the page
was synced before; the runs about progress stay within a page, as its exactness is
false beyond one (below). In `calm` the requests have numbers and start in their order
(`InOrder`): a name is arbitrary and no fairness is assumed of a start, so every
behaviour is one of these under another naming, and the liveness run needs no
symmetry. `MaxByHand` bounds when a request by hand may start, and those that have
started store their pages. Three named requests of `portfolio` make two accounts and sync one
of them again, or sync one twice, or once beside a loop of a request that timed out, with any number of moves and deletions, which need no name,
between them.
Six requests of the tree make the roots, a child, a child of it, and let three more
delete, create and initialise around them. Five requests of the workspace sign in, make
an address book or group and an account, and let two more update and delete it; two
updates of one account both match before either writes, and so do two of one address book.

Each of these runs finds the code at odds with what it says:

| run | what TLC finds |
|---|---|
| `restart_mid_sync` | a repeated sync at progress 0 passes the "already in the process" test and makes `progress` overshoot |
| `missing_price` | a transfer without a price is counted, not stored, and never tried again |
| `sync_without_task` | `POST /account`, then a sync of it: the messages go out, no task is there to take what they bring, now or ever |
| `silent_update` | an update that names a deleted address book writes nothing and is answered with the account |

The models have more behaviours that a maintainer should know of; no run is spent on
them, as a short sequence of actions shows each:

| behaviour | actions |
|---|---|
| two users, tags, groups or accounts of one key, label, label or address, each past its "if not exist" query | `SignIn`, `SignIn`, `CreateUser`, `CreateUser` of two requests; likewise `MergeTag`, `MergeGroup`, `CheckAddress` |
| two accounts of one address from a client that waits | two `CreateAccount`, then `UpdateAccount` with the address of the other |
| a redelivered message passes the "Transaction already exist" check, as the keeper has not run the queries of the first delivery, and its transaction is stored twice | `CollectQueries`, `CollectorCrash`, `TakeMessage` and `CollectQueries` again, then the jobs of both |
| a category at the end of the longest path is shown by `GET /category` and "not found" by the check: five relations from a root, five from the user | `InitCategories`, `CreateCategory` down the longest path, `CheckCategory` |
| a moved account's progress starts at the number of signatures of its old address | `SyncNew`, `MoveAccount`, `SyncAgain` |
| one transaction stored twice by hand, or by hand and by a sync: no listing shows the copies without a task | `StoreTransaction`, `StoreTransaction` |
| "already in the process" for ever: `amount` and `progress` differ with nothing under way | a restart at progress 0, a lost job, or a history longer than the page, then `ReadTask` |
| two updates of one account overlap, and it has the group, address book and tags of both; of one address book, the tags of both | `MatchAccount`, `MatchAccount`, `UpdateAccount`, `UpdateAccount`; likewise `MatchBook`, `UpdateBook` |
| a category created below one that is being deleted is left without a parent, where no query finds it | `MatchSubtree`, `CreateCategory` below what it matched, `DeleteById` |
| the initialisation of a tree resets the label an update gave a root | two `GetCategoriesByUser`, `InitCategories`, `UpdateById`, `InitCategories` |
| an address book is not created, and the answer is `[]`, when its account goes in between | `CheckAccount`, `DeleteAccount`, `MatchAddress` |
| an address book made for an account is not shown with it: `has`, not `bookOf` | `CreateBook` with an address |

## 5. Proofs

All theorems hold for every value of the constants, under the named assumptions of the
modules (`ConstantsAssumption`, `IdleHandAssumption`, `PortfolioAssumption`,
`CategoryAssumption`, `WorkspaceAssumption`) and, where said, a hypothesis on the failures
or the page. Every invariant and action property of the passing runs is a theorem, and
so is the safety part of the refinement. TLC checked each inductive invariant on the
instance of a run before it was proved.

### The pipeline, any client (`SyncPipelineProofs`)

* `TypeCorrect`: `Spec => []TypeOK`, any number of requests, collectors, keepers and
  failures, any history, page and price state. One lemma per service shows that its
  steps keep the types of what it can change; `StepTypeOK` puts them together.
* `OnlyPricedTransfersStored`: `Spec => []StoredArePricedTransfers`. The invariant is not
  inductive: what the keeper stores was decided by a collector long before. `PricedInv`
  follows it back: a job was received from the topic, every delivery with a `store`
  was priced when it was sent (and prices are never taken back), what a collector
  holds came from a message, and messages are about positions of the chain.
* `TransfersCountedWereStored`: `Spec => []CountedWereStored`, with overlapping requests,
  redeliveries and failures. `CountInv` gives each count its transaction: `transferCount`
  and the jobs that have stored and not counted yet are together at most the transactions.
  A request that resets a task or makes one under an id somebody already writes to
  would break it; `FreshInv` says that the id a request makes up is its own until
  its tasks are there.

### Clients that wait for answers (`SerialProofs`, `ProgressProofs`)

* `NothingStoredTwice`: `SerialSpec => []NoDuplicateTransactions`, if `Failing` has at most the
  failures of requests. With a crash of a collector or a keeper it is false: Kafka hands the
  message out again and the exists check does not see what no keeper has run yet
  (section 4, behaviours). A signature of a task is in one place at a time,
  and four invariants say so. `SerialInv`: one request is live, and what it read of
  its task still holds. `FlowInv`: a message is in the topic or in one hand, a delivery
  in the topic or in one job. `OnceInv`: a task has one message per signature, a message
  one delivery, and a transaction is stored once, after its delivery. `WindowInv` is for the
  page: what `syncedSignatures` holds is a page of the history, messages are about
  positions up to its newest, and a later page adds only newer ones, which is why a
  signature that left the page is not sent again when it is forgotten.
* `NothingDropsOut`: `SerialSpec => []NothingUncounted`, if `Failing` has at most
  collector crashes. `WayInv`: `progress` and the messages on their way add up to `amount`
  at least. A redelivered message is on its way again, so a crash of a collector
  keeps it. A keeper's query that fails, and a send that fails after the task was
  set, do lose signatures, so these failures are excluded.
  `FiniteInv` is needed for the cardinalities to be numbers.

### Clients that wait until the tasks are settled (`CalmProofs`)

Each of these has the hypothesis `MaxHeight <= Page`: beyond one page a repeated sync sets
`amount` to the length of the page and `progress` to the number of signatures known
before, some of which the page no longer has. With a history one longer than the page
and all transfers priced, TLC finds each of these statements false.

* `ProgressIsExact` and `ProgressOnlyGrows`: `[]ProgressExact` and `ProgressNeverFalls`.
  `ExactInv` is `WayInv` with equality; `PatientInv` says that nothing is on its way while a
  request comes to arm a task, which is what the client waits for; `SizedInv` that `amount` is
  the number of `syncedSignatures`. Arming a task raises `amount` by the new signatures,
  and the messages it will send are on their way from the same query on.
* `CompletionStampsAccount`, `CompleteCountsAreExact`, `CompleteTasksAreStored`: when a task
  reads complete nothing but an `end` query is left. `StampedInv`: the job of
  the last increment is at `end` or has stamped the account. `CountedInv`: what is stored is
  counted, or its job is about to. `StoresInv`: a synced signature with a certain price is
  stored, or a message, a delivery with `store` or a job at `store` has it.
* `LedgerIsKept`: `CalmSpec => Ledger!Safety`, initial state and every step. The mapping is a
  union over the tasks of the account; `TaskShown` and `EmptyShown` say that a calm client
  has one such task or none, so each step of the pipeline is read off one node: arming is
  the ledger's promise, the `store` query its entry, the increment its settling, a
  deletion its end, everything else a stutter. `Under` turns the set of what is on its way
  into a predicate of one signature.

### Portfolio, tree, workspace

* `PortfolioProofs`: `PortfolioTypeOK`, `PortfolioSyncedAreListed`, `PortfolioListedOnce`, for
  any number of requests and addresses, any sharing of transactions, any page. `IInv`
  adds what is true while messages are on their way: a message belongs to the task of
  the account with its address (`MessagesKnowTheirTask`), no address has two accounts
  (`Unique`), a task has a transaction once at most (`StoredOnce`), and a synced signature
  with a price is on the task or its message is on its way (`SyncedAreKept`). One lemma
  per request, and `ProcessKeeps` for the collector and the keeper, where the exists check is
  what keeps `StoredOnce`, and its being about the account's own tasks `SyncedAreKept`.
* `CategoryTreeProofs.RootsAreUnique`: `Spec => []OneRootPerOrder`, with the type
  invariant, because the MERGE of a root looks and writes in one query.
* `CategoryTreeProofs.OnlyLateHidden`: `HistorySpec => []OnlyLateCategoriesAreHidden`, for
  any length of the paths. `HiddenInv`: who has lost its parent was made as the parent was
  being deleted (`ParentsAreThere`); a deletion has matched all of the subtree but what was
  made since (`SubtreesAreMatched`, which rests on `SubtreeIsClosed`: the tree is no deeper
  below a found category than the DELETE follows); and no category is made deeper than
  `GET /category` looks (`DepthsAreBounded`, by the depth a category had when it was made). The
  paths are a recursive function; `ReachZero` and `ReachNext` are its equations, shown by
  induction on sets (`NatSetInduction`, from the well-foundedness of the naturals), and
  the lemmas on `Reach` after them are inductions over the length of a path.
* `WorkspaceProofs`, clients that wait: `OneUserPerKey`, `TagsAreUnique`,
  `GroupsAreUnique` (if no group gets a new label) and `AccountsAreUnique` (if no account
  gets a new address). The inductive invariant `UniqueInv` adds that at most one request is about
  to write (`Sole`) and that what its check found still holds (`Checked`); the first two
  behaviours of the last table of section 4 show that neither the
  client's patience nor the two exceptions can be dropped.
* `WorkspaceProofs`, requests that overlap (`ApartSpec`): `WorkspaceTypeOK` and
  `BooksComeWithAccounts`. `Armed` is what the first query of a request settles for the second:
  its caller is a user (users are never deleted) and its arguments are there. What else it
  found, or its MATCH has, may be gone, and that a write to a deleted node throws is what
  keeps every relation between nodes that are there. `FoundInv`: a `createBook` that has
  matched has found an account.
* `AsWrittenProofs`: `AccountsAsWritten` and `BooksAsWritten`, for `EditSpec`.
  `KnownInv` says who made what: there is one user node, so a caller owns every tag relation
  (`OwnIsAll`); nodes were made and written by requests that are answered, and
  answered requests stay as they are; clients name what they were told of, so the node of a
  request that is still writing has no relations and nobody refers to it. `WrittenInv` adds the
  property, relation by relation, for every account and address book, and `BetweenFits` for
  what an update has found: relations of its own node, and all of them as long as it has no
  rival, for only an update of the same node adds to them. `RivalsInv`: two updates between
  MATCH and write of one node are both in `overlapped`. Each write fits the node it
  writes and leaves the others alone (`Untouched`); what others have found it leaves
  complete (`Foreign`, `OthersBetween`). Neither exception can be dropped: with two user nodes an
  update leaves the tag relations the other node owns, and without `overlapped` TLC finds two
  updates that leave the relations of both (section 4, behaviours).

### Model-checked only

* Liveness: `EverySignatureCounted`, `EveryTaskCompletes`, and the leads-to of `LedgerKept`. Fairness
  is about ENABLED, which is out of the prover's reach.
* The properties of the runs that find the code at odds with what it says: they are false.

## 6. Plan

Done: the pipeline and its ledger, the portfolio, the tree, the workspace, and a theorem for
every invariant, every action property and the ledger's safety. Liveness stays with TLC.
The hypotheses on failures and on the page stand where TLC or section 4 show the statement
false without them.

## 7. Not modelled

* An account with the same address in another user's graph, beyond the check that
  accepts it (`ForeignAccount`): every other query names the user.
* An address given to two accounts of one user: the code allows it, the portfolio's client
  does not do it.
* `developer` and `neo4j-db.service`: statements for development that erase or list
  whole labels.
* `profile`: a stub. DTOs, validators, the other interceptors, bootstrap: no state of
  their own.
* The listings of accounts, tags, groups and address books, beyond the relations a write
  leaves for them: reads of one query.
* `libs/core/utils`: `clearStringify` writes lists of signatures and addresses, which have
  no quotes and no null, as they are, and takes the quotes off the keys of a record;
  `chunk` and the query builders have no caller that any endpoint reaches.
* The other calls of `Web3Service`: reads of the chain that change nothing.
