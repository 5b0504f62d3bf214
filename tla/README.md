# Verification of mcp-server-servicenow

TLA+ models of the MCP server in `src/src/`, the TLC runs that check them on
small instances, and theorems about them that TLAPS checks for every value of
the constants. Paths such as `services/tokenManager.ts:73` are relative to
`src/src/`.

The server gives an MCP client (Copilot Studio, Agent 365) tools over a
ServiceNow instance: search the catalog, show a form, place an order, list and
update orders, validate the configuration. It runs as an Azure Function or as a
stand-alone Express server, authenticates callers with Entra ID, and calls
ServiceNow as the caller (a token in a header, or an On-Behalf-Of exchange) or
as an integration user. It keeps nothing on disk: its state is what lives in the
memory of one process, and it is shared by all requests that process serves
concurrently. Node runs one callback at a time, so an action of a model is what
happens between two awaits.

## 1. Inventory

| Component | State | Operations | What is hard about it | What makes it correct |
|---|---|---|---|---|
| Token manager `services/tokenManager.ts` (one instance, `services/instances.ts`) | `cachedToken`, `inFlight` | `getAccessToken`, `acquireToken` over the authentication styles, `requestToken` (10 s timeout) | overlapping calls, slow replies, timeouts after the server acted, expiry arithmetic | one acquisition at a time; every call answered, within a timeout per style; tokens outlive the call they authenticate |
| OBO token service `services/oboTokenService.ts` | `tokenCacheByOid`, `inFlightByOid`, MSAL client | `getDownstreamTokenForCaller`, `exchangeAndCache` | the same per user, calls without an oid, no timeout | never another user's token; one exchange per user; failed exchanges do not stick |
| ServiceNow client `services/servicenowClient.ts`: interceptor | none of its own; reads the request context and both token sources | one decision per HTTP call, two awaits | the identity is decided anew for each call of an operation | the caller's token is decisive; no fallback when a caller's token is required |
| ServiceNow client: `mapWithConcurrency` | shared index, results | fan-out over a list with 5 runners | runners interleave; one fails while others go on | every item once, complete results, failures isolated |
| ServiceNow client: `placeOrder`, `resolveRequestedFor`, patches | the order in ServiceNow | lookup, POST, PATCH of the request, list and PATCH of its items | each call may be lost before or after its effect; partial failure | ordered at most once; an explicit recipient is never replaced; request and items agree |
| ServiceNow client: `listUserOrders`, `updateOrder`, `searchCatalogItems`, `getCatalogItem`, `searchReferenceRecords` | none | reads with nested fan-outs, one PATCH | load on the instance, degraded results | enrichment failures degrade one item, not the list |
| Entra token validator `services/entraTokenValidator.ts` | `jwksCacheByTenant` | `getSigningKey`, `validateEntraToken` | concurrent refreshes, key rotation, responses that overtake one another | no key accepted long after its withdrawal; no published key unknown; claims checked for the tenant whose key signed |
| Entra middleware `utils/entraAuthMiddleware.ts` | `res.locals` of a request | bypass, 503, 401, next | fail closed; label of the refusal | nothing is served without validation unless disabled |
| Request context `requestContext.ts` | AsyncLocalStorage | `runWithRequestContext` (merge), `getRequestContext` | contexts of concurrent requests, nested contexts | a request never sees another's context |
| HTTP application and MCP transport `app.ts`, `server.ts`, `functions/mcp.ts`, `functions/wrap.ts`, `functions/health.ts`, `utils/cors.ts` | one MCP server and transport per request | `/mcp`, health, catalog routes | cleanup on close, errors between connect and reply | one reply per request; resources released |
| OIDC discovery and DCR `functions/oidc.ts` | `msMetadataCache` | discovery, protected resource, registration | concurrent refreshes, failures, a document quoted from Entra and one made up | no old or made-up document is served from the cache; everyone who is meant to sign in can; registration closed unless opened |
| Catalog REST API `functions/catalogApi.ts` | none | search, form, order | status codes of partial failures | same identity rules as the tools |
| Tools `tools/*.ts` | registry | one handler per tool, `get_catalog_item_form` with its parallel lookups, allow-list of `update_order`, drift guard | lookups that fail or overtake one another; registry against manifest | a failed lookup costs one field; only allowed fields are forwarded |
| Form prefill `utils/prefillCatalogForm.ts` | none | matches hints and the conversation to form fields | the order of overlapping rules; choices that are parts of one another | proposed choices are real; the named one wins; what is reported as prefilled is shown |
| Adaptive cards `utils/adaptiveCards.ts` | none | order form, selection and confirmation cards | two classifications of variable types, one here and one in the prefill | every question is asked once, in order, by an input that can show its value |
| Configuration, logging, types | process environment | | | |

How they interact: an inbound request passes the middleware (which awaits the
validator, which awaits the key cache), then a request context is established
from what the middleware found and from the headers; a tool handler or a REST
handler calls operations of the ServiceNow client; each HTTP call of an
operation passes the interceptor, which awaits the OBO service or the token
manager; the operations fan out with `mapWithConcurrency`. The shared mutable
state is exactly that of the three caches (tokens, downstream tokens, signing
keys) and the cached OIDC metadata.

The behaviours a test hardly reaches are listed, each at its line, under
`hazards` in `PROJECT.json`.

## 2. Plan

In the order of importance; every letter is a group of modules that can be
checked by itself.

* **A. Token manager** (done): `TokenService` (what a token source promises),
  `TokenManager`, `TokenManager_proofs`.
* **B. OBO service** (done): `OboTokenService`, which implements `TokenService` per
  user, and `OboTokenService_proofs`.
* **C. Fan-out** (done): `ParallelMap` (abstract), `FanOut`, `FanOut_proofs`;
  `ListUserOrders` and `ListUserOrders_proofs`, a fan-out nested in a fan-out.
* **D. Identity and orders** (done): `CallIdentity`, which knows the token sources by
  `TokenService` only (its proofs are the last part of `TokenManager_proofs`),
  `PlaceOrder`, which composes `FanOut`, and the first part of `Ordering_proofs`.
* **E. Signing keys** (done): `SigningKeys`, `SigningKeys_proofs`.
* **F. Request path** (done): `RequestGate` and `RequestGate_proofs`: the gates of
  `/mcp` and of the catalog API, the middleware, the checks of
  `validateEntraToken`, the request context and the single reply.
* **G. OIDC discovery and registration** (done): `Discovery` and
  `Discovery_proofs`: the metadata cache under overlapping fetches, what the
  document promises to whom, the policy of registration.
* **H. The order form** (done): `FormFields` (variables and inputs), `Prefill` (the
  rules), `CatalogItemForm`, which composes them with the calls of the tool, and the
  second part of `Ordering_proofs`. Left: the allow-list of `update_order`, the selection and
  confirmation cards and their paging.

## 3. The modules

### TokenService
The promise both token sources make to the interceptor: a call is answered, at
once or later, with a failure or with a token of the principal it was made for
that is good for `UsableFor` more. It says nothing of caches or requests.

### TokenManager
One unit of time is 10 s, the timeout of a token request; the margin and the
floor of the cached lifetime (30 s) are 3 units, the timeout of a REST call
(20 s) is 2.

| Code | Model |
|---|---|
| `this.cachedToken` | `cached` |
| `this.inFlight` | `inFlight`, the call that started the published promise |
| a running `acquireToken` | `acq[c]`: its stage, the style being tried, when it began and sent its request |
| a caller awaiting a promise | `pc[c] = "waiting"`, `joined[c]` |
| lines 60-66, 69-71, 73-77 | `UseCached`, `Join`, `Start` |
| the loop, lines 115-143; the throw, 145-153 | `TryNextStyle`, `GiveUp` |
| lines 155-161 | `ReplyArrives`, `CacheFor` |
| `.finally(...)`, lines 73-75 | `Finally`, which also settles the calls that wait |

The token endpoint is external: it issues a token at some moment after the
request was sent (`ServerIssues`), and a request may fail before or after that.
Grants are not modelled as a loop: whatever the configuration, exactly one grant
is tried (lines 88-95). `Tick` lets time pass only when no callback is ready, and
not beyond the timeout of a request. That callbacks take no time is the usual
abstraction of an event loop that is not overloaded.

### OboTokenService
The same per user. `inFlight` is `inFlightByOid`, `cacheByOid` is
`tokenCacheByOid`; a call without an oid has the key `None` and is neither
cached nor joined. MSAL's own cache is not visible to the code and not modelled.
`MaxLatency` bounds how long an exchange may take: the code sets no timeout, so
that an exchange settles at all is an assumption about MSAL.

### ParallelMap, FanOut
`FanOut` is `mapWithConcurrency`: the runners, the shared index, the results and
the promise of `Promise.all`. A worker returns or throws; when one throws, the
promise is rejected while the other runners go on taking items. `ParallelMap`
says what the caller may rely on.

### CallIdentity
On whose behalf each HTTP call of an operation is made: the interceptor of the
client, with its two awaits, and the token choice of
`validate_servicenow_configuration`, which has a rule of its own. The token
sources are known by their promise only and may fail and recover between two
calls of an operation. Operations share no state in this module, so its runs
have one. `CallsInit`, `CallsNext` and `CallsSpec` carry the name of their module,
because `TokenManager_proofs` extends it along with `TokenManager`; for the same
reason those of `CatalogItemForm` are `FormInit`, `FormNext` and `FormSpec`.

### ListUserOrders
`listUserOrders`: the lookup of the caller, the page of requests, and two nested
fan-outs. The fan-out over requests is an instance of `FanOut` on the module's
own variables; its worker is the life of `request[i]`, from `plain` over `items`
(the second fan-out) to `enriched` or, after a failed GET, `bare`. Which runner
of a second fan-out holds which item matters to nothing outside it, so that
fan-out is the set of items under way and the shared index, and the run checks
that it implements `ParallelMap`. `lostItems` and `lostCatalog` record which
calls failed, for the properties only. An item whose `cat_item_id` is `null` is
left out: the declared type of the field excludes it.

### PlaceOrder
`placeOrder` from the lookup of the recipient to the patches of the items.
Every call is `unsent`, on the `wire`, `applied` or `lost`, and the client's
step may fail in each of these states: a timeout says nothing about whether
ServiceNow acted, or will act later. The fan-out over the items is an instance
of `FanOut` on the same variables, and its runners go on after the placement has
been answered. The reply need not name the request by a `sys_id` (`identified`); the
code then patches nothing, as it does for a recipient that was not resolved to one,
and reports a success without a warning.

### SigningKeys
`jwksCacheByTenant` and `getSigningKey`. Tenants publish and withdraw keys at
any time; the variable `since` records when, for the properties only. A fetch
reads the keys at some moment between its sending and its reply, so responses
can overtake one another, and the older one may be stored last.

### RequestGate
An inbound request from its arrival to its reply. `request[r].stage` goes from
`arrived` (the wrapper has given it a context with its log sink) over `keys` (the
validator awaits the signing key) to `serving` (an operation runs) and `replied`;
every refusal ends it with one reply.

| Code | Model |
|---|---|
| `functions/wrap.ts:23` | `Arrive` |
| `app.ts:121-140`, `functions/catalogApi.ts:81` | `Dispatch`, `Exempt` |
| `entraAuthMiddleware` up to `validateEntraToken` | `Validate` |
| the checks of `validateEntraToken` before and after `getSigningKey` | `WorthAKey`, `Valid` |
| `.then(...)` and `.catch(...)`, `utils/entraAuthMiddleware.ts:73-103` | `KeysAnswer`, `KeysFail` |
| the routes | `RunsOperation`, `Handle`, `Answer` |
| AsyncLocalStorage, `runWithRequestContext` | `store`, `Merge`, `runWithRequestContext` |
| a read of the context after any await of the operation | `Operate`, which records it in `seen` |
| the reply; the `catch` of `app.ts:237-242` | `Reply`, `HandlerThrows` |

A token is a record of what the checks tell apart: whose key verifies it, its
`tid`, the tenant a well-formed issuer names, its times and audiences.
`getSigningKey` is known by what `SigningKeys` shows of it: an answer, or a
failure, within two fetches. `Authorized` states the policy again, in one place and
without the order of the checks: the property is that the code enforces it at
the moment an operation begins.

### Discovery
The OAuth endpoints. `request[r].stage` is `asked` while Entra has yet to read its
document for a fetch, `read` while the response is on its way, and `answered`.

| Code (`functions/oidc.ts`) | Model |
|---|---|
| `msMetadataCache`, per authority | `msMetadataCache`, per name of a tenant and for `common` |
| the handler up to the await of the fetch | `Discover`, `CacheHit` |
| the response; the `catch` | `FetchReturns` with `NewEntry`; `FetchFails` |
| the document | `DiscoveryDocument`: the authority each field names, and the offer of registration |
| protected resource, registration | `ProtectedResource`; `Register` with `RegistrationStatus` |

A URL is the authority it names, which is what decides who may sign in there. A
tenant has a GUID and may have domains (`TenantOf`); Entra's documents and tokens
name the GUID. `readAt` says when Entra read what a document quotes, for the
properties only. What `validateEntraToken` accepts is restated from its tenant
rule (`AcceptsTenant`), so the announcement and the gate are compared.

### FormFields, Prefill, CatalogItemForm
The tool `get_catalog_item_form`, from its arguments to the card. `CatalogItemForm`
has the calls: the search by name or the item by its `sys_id`, then one lookup per
reference, all at once (`Promise.all` over promises that never reject). What is
prefilled and what the card shows follow from the item, the arguments and the
outcomes of the lookups alone, so they are operators (`prefilledValues`, `Card`)
and no variables.

`FormFields` reads a variable (label, type, choices, default) and picks its input
by the first rule that applies; `Prefill` is `prefillCatalogForm.ts`: hints before
context, the rules for choices, switches, numbers and lines of text, and the
extractors for colors, storage, carriers, models, quantities, durations, dates and
replacement. A text is a sequence of words without case, markup or punctuation,
because that is what `tokenize` and `toAdaptiveText` leave of it; where the code
looks for a substring, so does the model (`Includes`). A date that is counted from
today stays so (`today+14day`), so nothing depends on the calendar but the
day of the week. The tables of types and synonyms are sets of the words in the
code; the two modules keep the sets of types that the two files have, and
`PrefillIsAccountedFor` compares them. The card's sets stand by themselves
(`ChoiceTypes`, `DateTypes` and so on): which input a variable gets is decided by the
rules of `InputKind`, what the properties say of it by its type and its choices. A
number is read from a hint by `Digits` as the code reads it, from the digits, points and
dashes of the text in a row, also inside words ("256gb" is 256, "1-2" is no number and
the hint is passed over). `IsNumeric` knows numerals as the code writes numbers, so the
conversion of "007" to 7 is not modelled.

`collectVariables` recurs over the tree of variables. `Visit` does the same step by
step, with the variables that are still to be visited in their order, for up to
`MaxVariables` steps. (`seen` in the code guards against an object that occurs
twice, which a reply parsed from JSON does not have.) `Visit` and `Among`, which is
`filter`, are recursive functions and the rules of `InputKind` a sequence of which the
first that applies decides, because that is what can be proved about. An item with an
unknown `sys_id` stays `Nothing` and its call can only fail.

## 4. The runs

Each run names its bounds in its `.cfg`. In every model the bound on time
(`MaxTime`) stops the clock, not the actions.

| Run | Instance | What it shows |
|---|---|---|
| `token_manager` | 3 calls, 2 styles, lifetimes 60 s and 70 s, 80 s of time | single flight, no orphaned waiter, bounded wait, a live token is never displaced, every call is answered, and the refinement of `TokenService`: tokens outlive the call they are for. 80 s are enough for a token to be acquired by way of both timeouts, to expire and to be replaced. |
| `obo` | 2 calls of 2 users, lifetime 60 s, exchanges of up to 10 s, 40 s of time | one exchange per user, the table names exactly the exchanges under way, tokens belong to the caller, every call is answered, refinement of `TokenService`. 40 s are enough for an entry to expire and to be replaced. |
| `fan_out` | up to 5 items, 3 runners | all lengths below, at and above the number of runners, all combinations of failures; the refinement of `ParallelMap` (each item once, complete results, bounded concurrency); a runner that throws does not stop the others; the runners come to an end |
| `call_identity` | 1 operation of up to 4 calls, 2 users, every context and configuration | the caller's identity is kept when it is required; a validation uses one token |
| `call_identity_required` | the same | the comment on `requireCallerAccessToken` against the validation tool (violated, see below) |
| `place_order` | a page of 3 items of an order of up to 4, 2 runners | at most one order, an explicit recipient is kept, items follow the request, a success without a warning has patched the request and the listed items, or nothing at all. The order may be longer than the page: what is not listed keeps the recipient ServiceNow gave it, and no property says more of it. |
| `signing_keys` | 2 validations, 2 tenants with a key of the same id; an hour is 2 units, a fetch takes up to 1; 4 units of time | staleness and ownership of accepted keys, no published key unknown, at most two fetches |
| `list_user_orders` | a page of up to 3 requests of 0 or 3 items, concurrency 2 | at most the square of the concurrency of calls at once, failures stay local, nothing is left in the background, each second fan-out is a `ParallelMap`. Pages and orders longer than the concurrency occur at both levels. |
| `request_gate` | 2 overlapping requests that may follow one another, 2 users in 2 tenants, tokens with each single defect, 5 configurations, with and without the wrapper; a fetch and the skew are one unit, 2 units of time | who may begin an operation and when that is decided, whose context it reads, one reply, and that every request is answered. Two units are enough for a token to expire while its key is awaited. |
| `discovery` | 2 overlapping requests that may follow one another, 3 tenants and a domain of one, 11 configurations; an hour is 2 units, a fetch takes up to 1; 5 units of time | how old a served document may be; that a failure is not served again; who can sign in with the document; who gets credentials; that every request is answered. Five units are enough for an entry to be overwritten by an older response, to expire and to be fetched again. |
| `discovery_domain` | the same, with the home tenant configured by its domain | two comments on `ENTRA_TENANT_ID` against the tenant rule of the validator (violated, see below) |
| `catalog_form` | 3 items (2 of one name), 21 variables of every kind the code tells apart, 4 lists of hints with 9 contexts, an unknown `sys_id` and an unknown name, every outcome of the calls; at most 12 variables in a form | what a failed lookup costs, and which input it leaves; that a prefilled choice is real and the named one; which prefilled values are shown and which are not; that the tool answers. The contexts reach every extractor, including those that find a phrase and then reject it (30 February). That 12 steps visit every form to its end is `CatalogAssumption`, which TLC evaluates. |

The ratio of an hour to a fetch (720 in the code for `Discovery`, 360 for
`SigningKeys`) is 2 in the runs of these modules; the theorems hold for every ratio.
The type invariants (`TypeOK`) state the types of the variables. They are proved
(as parts of the inductive invariants) and not listed in the runs, which leaves
these to the other properties. The run of `SigningKeys` declares validations
and tenants symmetric; no other does, because they check liveness.

**Fairness.** Weak fairness of the actions by which an outstanding HTTP call
settles (axios aborts it at its timeout) and of the callbacks that are ready to
run (the event loop runs them). For the OBO exchange the code sets no timeout:
`obo` assumes that MSAL settles. The interceptor awaits that exchange before a call of
the REST client, so the liveness of `fan_out`, `request_gate` and `catalog_form` rests on
the same assumption; should MSAL hang, what awaits it is never answered, and that the
model does not show (the hazard listed for `services/oboTokenService.ts:152`). In `RequestGate`
it is the fetches of the validator and the calls of the operations that settle, in
`Discovery` the fetches (aborted after 5 s), in `CatalogItemForm` the calls of the
REST client (20 s) and the steps of the handler. Nothing is assumed of callers, of the
external servers, or of time.

**Deadlock** is checked everywhere but in `CallIdentity`, whose operations end.
`FanOut`, `PlaceOrder` and `ListUserOrders` have a `Finished` step, and
`CatalogItemForm` an `Answered` step, for the state in which all that was begun has ended, so a placement, a listing or a form that waits for
nothing would be reported.

**Mutants.** Next to a definition stand variants of it with a plausible bug
(`..._Stampede`, `..._NoMargin`), which `Next` does not use; replacing the
definition by the variant makes TLC report the property `PROJECT.json` pairs
with it.

### What the runs contradict

* `call_identity_required`: `config.ts:30-32` says that with
  `requireCallerAccessToken` all ServiceNow calls must use a caller's token and
  nothing falls back to the shared identity. The token choice of
  `tools/validateServiceNowConfiguration.ts:148-149` does not look at the option.
* `discovery_domain`: `services/entraTokenValidator.ts:123` describes the primary
  tenant as "GUID or domain", and `functions/oidc.ts:107-109` takes care of a
  configured domain. The validator compares the configured string with the `tid`
  of the token (line 161), which is a GUID: with a domain, a user of the home
  tenant who signs in as announced is refused.

### Seen while modelling

Places where a comment and the code differ, or where a rule may surprise, that no
run states as a property.

* `services/servicenowClient.ts:23-25` says that in-flight tasks "are still awaited
  via Promise.all semantics" when a worker throws. `Promise.all` rejects at once;
  the other runners go on and even begin further items (lines 41-47). In
  `placeOrder` the reply can thus precede patches that are still to be sent.
* `services/servicenowClient.ts:695` says that the listing falls back to "using the
  first caller value if lookup fails". Nothing follows the comment: line 705
  returns an empty listing, as if the user had no orders.
* `config.ts:53` calls the registration endpoint open without a token; it is closed
  unless it is opened (`functions/oidc.ts:361`). `functions/oidc.ts:86` says that
  `openid` and `profile` are always advertised; the code adds `openid` and
  `offline_access`.
* `utils/adaptiveCards.ts:741` lists the type 7 with lines of text; it becomes a
  switch. A numeric hint without digits becomes 0
  (`utils/prefillCatalogForm.ts:705`).
* `utils/adaptiveCards.ts:756-759` says of the prefilled values that "matching inputs are
  pre-populated and a small notice is shown so the user understands which fields were
  filled in for them". The notice counts every value, also those that no input shows:
  of macros, custom variables, breaks and splits, which
  `utils/prefillCatalogForm.ts:604-609` fills and `utils/adaptiveCards.ts:338-346` leaves
  out; a value that is not on the list of its input, such as a hint for a reference
  whose records do not include it; and all but the first word for a date with time
  ("May 25 2026" becomes "May"). `PrefillIsAccountedFor` says that it is these and no
  others.
* `tools/getCatalogItemForm.ts:82-84`, `utils/adaptiveCards.ts:602-606` and
  `services/servicenowClient.ts:594` say that a reference whose lookup failed falls back
  to a free-text input. It does so only if its type is that of no other input, as with a
  `friendly_type` of "reference". A type of a list (14, 18, 21, select, lookup, choice)
  without choices of its own becomes a `ChoiceSet` with nothing to choose from
  (`utils/adaptiveCards.ts:653`), so a mandatory question cannot be answered; type 8
  becomes a date. `FlakyLookupsAreLocal` says which.
* The repository's `README.md:379-382` gives a failed patch, with its trace
  `requestedForPatchFailed`, as the reason for a wrong `requested_for`, and line 230 says
  that the order is "immediately PATCHed". Without a trace or a warning nothing is patched
  when the reply has no `sys_id` of 32 hexadecimal digits, or the recipient was not
  resolved to one (`services/servicenowClient.ts:631-637`), and items beyond the first 100
  are not listed (line 449). `CleanSuccessIsConsistent` says what a success without a
  warning stands for.
* Affirmative and negative words are weighed in that order: one of the former
  decides (`utils/prefillCatalogForm.ts:574`). Choices are looked for as
  substrings, so "yes" is found in "yesterday" and "no" in "now", also for the
  question about a replacement, which lines 544-545 mean to leave to the user.
* When two hints match one variable, the first in the order of the object's keys is
  taken.

## 5. The theorems

All are of the form `Spec => ...`, for any number of callers, items, runners,
requests, tenants or keys, and any lifetimes and times, under the `ASSUME`s of the module
(which every run evaluates).

**TokenManager_proofs.** `IInv` ties the three pieces of state together: at most
one acquisition is not idle and it is the one `inFlight` names (`FlightInv`); a
waiting call has joined that one (`WaitInv`); its style and clock are consistent
(`ClockInv`), and while an acquisition is under way the cache holds nothing that
could be served (`NeedInv`). None of the properties is inductive by itself:
single flight needs that `inFlight` is cleared only by the acquisition it names,
and that is what `FlightInv` says. Proved from it: `TypeCorrect`,
`OneRequestAtATime`, `NoOrphans`, `WaitIsBounded`, `LiveTokenStays`,
`OverstayBound`; and, under the assumption `LongLived` that tokens live for at
least 60 s, `TokensOutliveCalls` and `Refinement`. The assumption is needed:
below 60 s the floor outweighs the margin, and `OverstayBound` says how far.

The last part of the module proves what the interceptor and the validation tool do
with the tokens of both sources (`CallIdentity`): an operation of the client that must
use a caller's token never reaches the await of the integration token and carries
nothing but its own identity (`ClientOwn`), a validation has used nothing while it is
choosing and only what it carries afterwards (`ValidateOwn`). From these
`CallsTypeCorrect`, `CallerIdentity` and `OneTokenEach`, for any number of operations
and of calls, where the run has one operation of up to four.

**FanOut_proofs.** `IInv` says who holds which index: an index below
`nextIndex` is stored, held by one busy runner, or held by one that threw. From
it `EachItemOnce`, `CompleteResults`, `FailuresAreIsolated` and `Refinement`,
which includes the bound on concurrency.

**SigningKeys_proofs.** The argument is about the moment at which a tenant read
its keys to answer a fetch. `ReadInv` says that what a response claims of a key
holds now, or the key was rotated after the fetch was sent; `CacheInv` that a
cached key is published or was withdrawn at most a TTL before the entry expires
(the expiry is counted from the beginning of the call, before the reading).
From these `KeysAreCurrent`, `RotationsAreNoticed` and `TwoFetches`.

**OboTokenService_proofs.** `IInv` follows a user's identity: the call that started
an exchange waits for it, and the exchange has that user's key or none (`OwnInv`); a
waiting call has joined an exchange that is under way for its own user (`WaitInv`);
a token that was issued belongs to the user whose assertion was sent
(`IssuedInv`). `TokensAreTheCallersOwn` speaks of the cache and the answers only,
so by itself it says nothing of the reply that is about to fill both. Proved from it:
`TypeCorrect`, `FlightsAreKept`, `TokensAreKeptApart` and `NobodyWaitsInVain`, the safe
half of "every call is answered". `FreshTokens` and `Refinement` are about time and
need the assumption `LongLived`: every lifetime, plus the one unit by which an entry is
left before it expires, leaves room for the margin, the floor and the slowest
exchange. Entra's lifetimes are of the order of an hour; below the assumed length the
floor keeps an entry that the margin would not (the hazard listed for
`services/tokenManager.ts:155`, in the other token source).

**Ordering_proofs, the placement.** `IInv` ties each call to the step that makes it and to what
ServiceNow did with it: the order was sent once, and a later step is reached only when
it was applied (`OrderInv`); the request is patched after the order, for the resolved
user, and only if the reply named it (`RequestInv`); the fan-out runs over the first page of the patched request, and a
result stands for an applied patch (`ItemsInv`); a success without a warning waited for
all of them if there was a request and a recipient to patch (`CleanInv`), and by
`RequestInv` no patch was sent if not. To these it adds the inductive invariant of
`FanOut_proofs`, whose lemmas are cited through an instance: the placement supplies
its own worker. Proved: `TypeCorrect`, `OrderedOnce`, `ExplicitIsKept`,
`RequestFirst`, `CleanSuccess`; and `PatchesAreAFanOut` (`Spec => Patches!Spec`), by
which all that is proved of the fan-out holds of the patches, such as
`NoItemPatchedTwice`. That is also why runners that go on after the placement was
answered are harmless to these properties: the invariant does not mention the reply.

**Ordering_proofs, the form.** The card is computed when the lookups have settled, so
the invariant of the handler is small and the work is in the operators. `FormIInv`:
from the answer of the item on there is one lookup for every reference of that item,
before it and after a failure there is none, and the item does not change any more.
`FlakyLookupsAreLocal` is not inductive alone: it must be known that the lookups belong
to the references of the very item whose card is built, also after an item of the same
name was found.

The lemmas about the operators come in layers.
* *Recursion.* A recursive function over 0..n exists and obeys its equation
  (`Iteration`, `AmongSteps`), by an induction over the natural numbers that is
  derived for sets from the well-foundedness of `<` (`Induction`). Hence what a visited
  form consists of (`CollectedVariables`), what `Among` keeps (`AmongElements`), that it
  goes through a concatenation (`AmongAppend`), and that selecting from the image of
  a sequence is the image of the selection (`AmongImage`): the inputs of the card and
  the questions of the form are matched index by index.
* *Rules.* The first of a sequence of optional results is one of them (`FirstAmong`,
  `FirstOfTwo`), and a variable's input follows from its type (`KindByRules`).
* *Prefill.* Whatever rule matches, a variable with choices is filled with the value of
  one (`MatchedChoice` up to `PrefilledChoice`), a switch with a truth value and a
  number with a numeral (`PrefilledLiteral`), and the value is stored under the name of
  its own variable (`PrefilledByName`).

From these `LookupsAreLocal`, `RealChoices` and `PrefillAccounts`, for any catalog,
hints, contexts and replies, and `FormTyping`. They rest on what the constants must be:
names are unique within a form and `sys_id`s among items (ServiceNow enforces both; the
code keeps the prefilled values by name), and `MaxVariables` steps visit every form to
its end (`NamesAssumption`, `CatalogAssumption`). `TypesAssumption` excludes data of which
the properties would be false: a variable that refers to a table is not of a type of
static text, and a line of text that is shown as a date has no friendly type that the
card leaves out; either would be an input in one place and not in another.
`PrefillAccounts` is an equivalence: the values it excepts are indeed not shown, so an
exception that became obsolete would make it false.

**ListUserOrders_proofs.** The first fan-out is again known by `FanOut_proofs`
(`FanOutStep`, `FanOutFacts`). What is new is which phase a request is in while a runner
holds it (`PhaseInv`) and an account of the second fan-out: every item begun is under
way or settled in exactly one way, no more than `Concurrency` are under way, and some
are as long as any is left (`AccountInv`). From it `NothingLeft`,
`FailuresStayLocal` (no outcome is attributed to the wrong call) and
`ItemsRefine`: for every request, whatever the others do, the second fan-out
implements `ParallelMap`. `CallsBounded` counts: a runner has one call of its own
or at most `Concurrency` in its second fan-out, so the calls are mapped one to one into
runners times slots (`Slots`, `Square`).

**RequestGate_proofs.** `IInv` ties the stage of a request to what has been
established by then: a request that awaits a key has passed the checks before it
(`Admitted`); the context it has is that of the wrapper until it is served, and
then the caller laid over it, and its operation has read nothing else
(`InContext`); and it has been answered once exactly if it has replied or is over
(`Replies`). A step changes one request, so the lemma `OneRequest` reduces each
action to that request; what other requests do is `Frame`. The policy needs
`Admitted` because the checks are split by the await of the key: what was checked
before it must still hold of the token that is accepted after it. Proved from it:
`TypeCorrect`, `ContextsAreKept`, `AnsweredOnce` and `AccessIsAuthorized`.

**Discovery_proofs.** What a document claims depends on where it came from, so
`IInv` follows it: a response that is under way names what Entra names and was
read after the fetch began (`AnswerIsTrue`), the fetch is not older than its
timeout (`FetchIsShort`), and what is in the cache is such a response, read before
the hour of its entry ran out (`CacheIsRecent`); the expiry is counted from the
beginning of the call, hence the bound. `DocumentsComeFrom` then says
that a new document quotes the cache, quotes the response, or is made up. Proved:
`TypeCorrect`, `DocumentsAreRecent`, `FailuresStayLocal`, `InvitedCanSignIn`,
`RegistrationIsGuarded`. As in the other modules a step changes one
request, and `OneRequestStep` reduces each action to it.

Only model-checked: liveness (`EveryCallIsAnswered`, `SettlesAndDrains`,
`RequestsAreAnswered`, `DiscoveriesAreAnswered`, `FormIsAnswered`; the prover does not do
fairness of `ENABLED` actions), and `NamedChoiceWins`, which depends on the
catalog and does not hold of every one: "lost" as a choice's own title is read as an
answer of yes where the choices are a yes and a no, and a choice whose value is a long
word of the context wins over one with a longer title than its own. The run checks it
on choices that resemble one another as real ones do.

Only proved: `OverstayBound`, on lifetimes below the floor, `FreshTokens`,
`NobodyWaitsInVain`, `EachItemOnce`, `CompleteResults`, `NoItemPatchedTwice` and the
type invariants.

## 6. Not modelled

* Of the cards: those for the selection of an item and for the confirmation of an
  order, their paging and wording. Of the prefill: names with punctuation, the cut
  of a justification after 500 characters, and the diagnostics.
* Of the tools: the checks of the registry at start-up; `update_order` beyond the
  identity of its call (it filters its fields by a list and sends one PATCH).
* Of the OAuth endpoints: CORS preflights and the `GET` of the registration, which
  answer with constants.
* The closing of the per-request MCP server and transport, which depends on the SDK
  (the listener is registered only after `handleRequest` resolved, `app.ts:229`);
  malformed JSON, which Express answers before the routes.
* The label `token_expired` of a refusal, which every error that contains "exp" gets
  (`utils/entraAuthMiddleware.ts:87`).
* The growth of the per-user cache and the revocation of tokens by ServiceNow: the
  code handles neither, and nothing says that it does.
* By choice: the wording of errors, logging and its sinks, TLS agents and their
  sockets, JSON formatting of replies, infrastructure templates, scripts and the
  Copilot Studio solution.

There is no persistent state, so a crash loses all state and a restart is `Init`.
