------------------------------- MODULE Routes -------------------------------
(***************************************************************************)
(* The REST routes of the apiserver and those who call them: VerifyToken,  *)
(* RateLimiter and VerifyGroupAccess in front of the handlers of v1 and v2 *)
(* (pkg/auth, pkg/apiserver/web), lists of clusters and of a service's     *)
(* metadata that a reader walks page by page, and the lookup of the        *)
(* cluster that PATCH is about.  Updates change the table in between.      *)
(*                                                                         *)
(* Clusters are numbered in the order of the index.  The cache in front of *)
(* the list routes is in ApiServer: here every request reads the table.    *)
(* What PATCH does to the cluster's own object is in Client.               *)
(***************************************************************************)
EXTENDS Queries, FiniteSets

CONSTANTS
  N,           \* number of names that clusters can have
  Item,        \* what the table can hold for a cluster
  Table,       \* what the table can be when the requests begin
  User,        \* callers, as the oid of their tokens tells them apart
  ShortName,   \* clusters whose name GetClusterDashName makes of a short one
  Query,       \* the parameters of list requests
  Tags,        \* the tags in the body of a PATCH
  Limit,       \* page sizes that readers ask for
  PageSize,    \* items that DynamoDB evaluates for one page of a query
  ApiRateLimiterEnabled,
  Burst,       \* requests the rate limiter lets pass at once
  MaxChanges   \* bound on the updates of the table

ASSUME RoutesAssumption ==
  /\ N \in Nat /\ PageSize \in Nat \ {0} /\ Burst \in Nat \ {0} /\ MaxChanges \in Nat
  /\ ApiRateLimiterEnabled \in BOOLEAN
  /\ Limit \subseteq Nat \ {0}
  /\ Nil \notin Item
  /\ \A it \in Item : it.service \in BOOLEAN /\ it.lastUpdated.day \in Nat
  /\ \A q \in Query : \A c \in q.conditions : c.field = "lastUpdated" => c.value.day \in Nat
  /\ Table \subseteq [1 .. N -> Item \cup {Nil}]
  /\ ShortName \subseteq 1 .. N

Name == 1 .. N
RouteGroup == {"clusters", "services"}

\* A request's token is missing or malformed, not verified, or valid, and then
\* of the group that API_AUTHORIZED_GROUP_ID names ("member") or not.
Token == {"malformed", "invalid", "valid", "member"}

\* GET and PATCH of a cluster, and GET of a service's metadata for a cluster.
Method == {"GET", "PATCH", "SERVICE"}

VARIABLES
  item,        \* item[n]: what the table holds for cluster n, or Nil
  tokens,      \* tokens[u][g]: requests the limiter of group g lets u make
  walk,        \* walk[u]: the list that u reads, or Nil
  call,        \* call[u]: the request of u about one cluster, or Nil
  changes      \* number of updates of the table

vars == <<item, tokens, walk, call, changes>>

\* A walk: the token, the route, what is asked for, the page that is read
\* (stage, offset), the progress of its query (key, found), and as history the
\* clusters listed so far, those that matched all the time (steady), whether
\* one began or ceased to match (joined, left) and whether a query failed.
Walk ==
  [token: Token, route: RouteGroup, query: Query, limit: Limit, offset: Nat,
   stage: {"ask", "query", "answer", "done", "panic"},
   key: 0 .. N, found: Seq([name: Name, service: BOOLEAN]), listed: Seq(Name),
   steady: SUBSET Name, joined: BOOLEAN, left: BOOLEAN, failed: BOOLEAN]

\* A request about one cluster: its token and method, the name in its URL,
\* the tags in its body, the step that is next and the status it is answered
\* with (0 before), and as history whether the cluster was registered when the
\* request was made, and has had metadata of the service since.
Asked == {a \in [token: Token, method: Method, name: Name, short: BOOLEAN, tags: Tags] :
            /\ a.short => a.name \in ShortName
            /\ a.method # "PATCH" => a.tags = {}}
Status == {0, 200, 400, 403, 404, 429, 500}
Call == [asked: Asked, stage: {"ask", "get", "getDash", "patch", "answered"},
         status: Status, sent: BOOLEAN, registered: BOOLEAN, served: BOOLEAN]

RoutesTypeOK ==
  /\ item \in [Name -> Item \cup {Nil}]
  /\ tokens \in [User -> [RouteGroup -> 0 .. Burst]]
  /\ walk \in [User -> Walk \cup {Nil}]
  /\ call \in [User -> Call \cup {Nil}]
  /\ changes \in 0 .. MaxChanges

Init ==
  /\ item \in Table
  /\ tokens = [u \in User |-> [g \in RouteGroup |-> Burst]]
  /\ walk = [u \in User |-> Nil]
  /\ call = [u \in User |-> Nil]
  /\ changes = 0

-----------------------------------------------------------------------------
(* The table.                                                              *)

MatchingIn(table, w) ==
  {n \in Name : /\ Matches(table[n], w.query)
                /\ w.route = "services" => table[n].service}

\* A list's pages are cut before clusters without the service are left out.
CountedIn(table, w) == {n \in Name : Matches(table[n], w.query)}

\* An update is written, and the index follows.
Write(n, it) ==
  /\ changes < MaxChanges
  /\ item[n] # it
  /\ changes' = changes + 1
  /\ item' = [item EXCEPT ![n] = it]
  /\ walk' = [u \in User |->
       IF walk[u] = Nil THEN Nil
       ELSE [walk[u] EXCEPT
               !.steady = @ \cap MatchingIn(item', walk[u]),
               !.joined = @ \/ ~(CountedIn(item', walk[u]) \subseteq CountedIn(item, walk[u])),
               !.left = @ \/ ~(CountedIn(item, walk[u]) \subseteq CountedIn(item', walk[u]))]]
  /\ call' = [u \in User |->
       IF call[u] = Nil \/ call[u].asked.name # n THEN call[u]
       ELSE [call[u] EXCEPT !.served = @ /\ it.service]]
  /\ UNCHANGED tokens

-----------------------------------------------------------------------------
(* In front of the handlers.                                               *)

\* A token that is missing or malformed is answered with 400, one that is not
\* verified with 403; neither goes any further.
VerifyToken(token) == token \in {"valid", "member"}

\* Mutant: a request is counted that should be refused.
RateLimiterLate(u, g) ==
  /\ tokens[u][g] >= 0
  /\ tokens' = [tokens EXCEPT ![u][g] = @ - 1]

\* One request less for this caller and group; without any it is answered
\* with 429.
RateLimiter(u, g) ==
  IF ApiRateLimiterEnabled
  THEN tokens[u][g] > 0 /\ tokens' = [tokens EXCEPT ![u][g] = @ - 1]
  ELSE UNCHANGED tokens

VerifyGroupAccess(token) == token = "member"

\* The limiter's store lets requests pass at its rate.
Refill(u, g) ==
  /\ tokens[u][g] < Burst
  /\ tokens' = [tokens EXCEPT ![u][g] = @ + 1]
  /\ UNCHANGED <<item, walk, call, changes>>

-----------------------------------------------------------------------------
(* Lists.                                                                  *)

StartWalk(u, token, route, q, limit) ==
  /\ walk[u] = Nil
  /\ call[u] = Nil
  /\ LET w == [token |-> token, route |-> route, query |-> q, limit |-> limit, offset |-> 0,
               stage |-> "ask", key |-> 0, found |-> <<>>, listed |-> <<>>,
               steady |-> {}, joined |-> FALSE, left |-> FALSE, failed |-> FALSE]
     IN walk' = [walk EXCEPT ![u] = [w EXCEPT !.steady = MatchingIn(item, w)]]
  /\ UNCHANGED <<item, tokens, call, changes>>

\* The request for the next page gets to its handler.
Ask(u) ==
  /\ walk[u] # Nil
  /\ walk[u].stage = "ask"
  /\ VerifyToken(walk[u].token)
  /\ RateLimiter(u, walk[u].route)
  /\ walk' = [walk EXCEPT ![u].stage = "query", ![u].key = 0, ![u].found = <<>>]
  /\ UNCHANGED <<item, call, changes>>

\* The request is answered with 400 or 403.
AskRefused(u) ==
  /\ walk[u] # Nil
  /\ walk[u].stage = "ask"
  /\ ~VerifyToken(walk[u].token)
  /\ walk' = [walk EXCEPT ![u].stage = "done", ![u].failed = TRUE]
  /\ UNCHANGED <<item, tokens, call, changes>>

\* Mutant: the page begins with LastEvaluatedKey, not after it.
EvaluatedAgain(key) ==
  (IF key = 0 THEN 1 ELSE key) .. (IF key + PageSize > N THEN N ELSE key + PageSize)

\* The names that one call of Query or Scan looks at.
Evaluated(key) == (key + 1) .. (IF key + PageSize > N THEN N ELSE key + PageSize)

Read(names) ==
  LET seq == InOrder(names)
  IN [i \in DOMAIN seq |-> [name |-> seq[i], service |-> item[seq[i]].service]]

\* Mutant: ExclusiveStartKey is not set from LastEvaluatedKey.
QueryFirstPage(u) ==
  /\ walk[u] # Nil
  /\ walk[u].stage = "query"
  /\ LET w == walk[u]
         hits == {n \in Evaluated(0) : Matches(item[n], w.query)}
     IN walk' = [walk EXCEPT
          ![u].found = Read(hits),
          ![u].stage = IF PageSize >= N THEN "answer" ELSE "query"]
  /\ UNCHANGED <<item, tokens, call, changes>>

\* One page of the query: what matches is appended, and LastEvaluatedKey is
\* where the next one begins.
QueryPage(u) ==
  /\ walk[u] # Nil
  /\ walk[u].stage = "query"
  /\ LET w == walk[u]
         hits == {n \in Evaluated(w.key) : Matches(item[n], w.query)}
         key == IF w.key + PageSize > N THEN N ELSE w.key + PageSize
     IN walk' = [walk EXCEPT
          ![u].found = @ \o Read(hits),
          ![u].key = key,
          ![u].stage = IF key = N THEN "answer" ELSE "query"]
  /\ UNCHANGED <<item, tokens, call, changes>>

\* A page failed: the handlers drop the error, and the response is an empty
\* list that has no more pages.
QueryError(u) ==
  /\ walk[u] # Nil
  /\ walk[u].stage = "query"
  /\ walk' = [walk EXCEPT ![u].stage = "done", ![u].failed = TRUE]
  /\ UNCHANGED <<item, tokens, call, changes>>

\* Of a page, the clusters with metadata of the service.
ListClustersWithService(page) ==
  LET kept == InOrder({i \in DOMAIN page : page[i].service})
  IN [i \in DOMAIN kept |-> page[kept[i]]]

\* The response: a page of what was found, and whether there are more.  The
\* services route looks at the page alone to tell.
Respond(u) ==
  /\ walk[u] # Nil
  /\ walk[u].stage = "answer"
  /\ LET w == walk[u]
         page == Page(w.found, w.offset, w.limit)
         shown == IF w.route = "services" THEN ListClustersWithService(page) ELSE page
         more == IF w.route = "services" THEN More(shown, w.offset, w.limit)
                                         ELSE More(w.found, w.offset, w.limit)
     IN /\ ~Panics(w.found, w.offset, w.limit)
        /\ walk' = [walk EXCEPT
             ![u].listed = @ \o [i \in DOMAIN shown |-> shown[i].name],
             ![u].offset = IF more THEN @ + w.limit ELSE @,
             ![u].stage = IF more THEN "ask" ELSE "done"]
  /\ UNCHANGED <<item, tokens, call, changes>>

\* The offset is past the end: the handler panics and the connection is cut.
RespondPanic(u) ==
  /\ walk[u] # Nil
  /\ walk[u].stage = "answer"
  /\ Panics(walk[u].found, walk[u].offset, walk[u].limit)
  /\ walk' = [walk EXCEPT ![u].stage = "panic"]
  /\ UNCHANGED <<item, tokens, call, changes>>

EndWalk(u) ==
  /\ walk[u] # Nil
  /\ walk[u].stage \in {"done", "panic"}
  /\ walk' = [walk EXCEPT ![u] = Nil]
  /\ UNCHANGED <<item, tokens, call, changes>>

-----------------------------------------------------------------------------
(* Requests about one cluster.                                             *)

RouteOf(method) == IF method = "SERVICE" THEN "services" ELSE "clusters"

\* A caller does one thing at a time.
StartCall(u, asked) ==
  /\ call[u] = Nil
  /\ walk[u] = Nil
  /\ call' = [call EXCEPT ![u] =
       [asked |-> asked, stage |-> "ask", status |-> 0, sent |-> FALSE,
        registered |-> item[asked.name] # Nil,
        served |-> item[asked.name] # Nil /\ item[asked.name].service]]
  /\ UNCHANGED <<item, tokens, walk, changes>>

Answer(u, status) ==
  call' = [call EXCEPT ![u].stage = "answered", ![u].status = status]

\* Mutant: PATCH is registered without VerifyGroupAccess.
PassCallAnyone(u) ==
  /\ call[u] # Nil
  /\ call[u].stage = "ask"
  /\ VerifyToken(call[u].asked.token)
  /\ RateLimiter(u, RouteOf(call[u].asked.method))
  /\ call' = [call EXCEPT ![u].stage = "get"]
  /\ UNCHANGED <<item, walk, changes>>

\* The request gets to its handler, or VerifyGroupAccess answers it after the
\* limiter has counted it.
PassCall(u) ==
  /\ call[u] # Nil
  /\ call[u].stage = "ask"
  /\ VerifyToken(call[u].asked.token)
  /\ RateLimiter(u, RouteOf(call[u].asked.method))
  /\ IF call[u].asked.method = "PATCH" /\ ~VerifyGroupAccess(call[u].asked.token)
     THEN Answer(u, 403)
     ELSE call' = [call EXCEPT ![u].stage = "get"]
  /\ UNCHANGED <<item, walk, changes>>

RefuseToken(u) ==
  /\ call[u] # Nil
  /\ call[u].stage = "ask"
  /\ ~VerifyToken(call[u].asked.token)
  /\ Answer(u, IF call[u].asked.token = "malformed" THEN 400 ELSE 403)
  /\ UNCHANGED <<item, tokens, walk, changes>>

TooManyRequests(u) ==
  /\ call[u] # Nil
  /\ call[u].stage = "ask"
  /\ VerifyToken(call[u].asked.token)
  /\ ApiRateLimiterEnabled /\ tokens[u][RouteOf(call[u].asked.method)] = 0
  /\ Answer(u, 429)
  /\ UNCHANGED <<item, tokens, walk, changes>>

\* onboarding and scaling are "on" or "off", and there are no other tags.
validateTag(tag) == tag.key \in {"onboarding", "scaling"} /\ tag.value \in {"on", "off"}

Validate(tags) == \A tag \in tags : validateTag(tag)

\* A cluster without metadata of the service is as good as none.
GetClusterWithService(it) == IF it # Nil /\ it.service THEN it ELSE Nil

\* What the handlers do with the item that was looked up.
GetCluster(u, it) == Answer(u, IF it = Nil THEN 404 ELSE 200)

GetServiceMetadataForCluster(u, it) ==
  Answer(u, IF GetClusterWithService(it) = Nil THEN 404 ELSE 200)

PatchCluster(u, it) ==
  CASE it = Nil -> Answer(u, 404)
    [] it # Nil /\ ~Validate(call[u].asked.tags) -> Answer(u, 400)
    [] it # Nil /\ Validate(call[u].asked.tags) -> call' = [call EXCEPT ![u].stage = "patch"]

HandleItem(u, it) ==
  CASE call[u].asked.method = "GET" -> GetCluster(u, it)
    [] call[u].asked.method = "SERVICE" -> GetServiceMetadataForCluster(u, it)
    [] call[u].asked.method = "PATCH" -> PatchCluster(u, it)

\* Mutant: a name that has no item is not taken for a short one.
GetItemOnce(u) ==
  /\ call[u] # Nil
  /\ call[u].stage = "get"
  /\ HandleItem(u, IF call[u].asked.short THEN Nil ELSE item[call[u].asked.name])
  /\ UNCHANGED <<item, tokens, walk, changes>>

\* The item with the name of the URL.  No item has a short name; getCluster
\* tries another one then, and GetClusterWithService does not.
GetItem(u) ==
  /\ call[u] # Nil
  /\ call[u].stage = "get"
  /\ LET asked == call[u].asked
     IN IF asked.short /\ asked.method # "SERVICE"
        THEN call' = [call EXCEPT ![u].stage = "getDash"]
        ELSE HandleItem(u, IF asked.short THEN Nil ELSE item[asked.name])
  /\ UNCHANGED <<item, tokens, walk, changes>>

\* The item with the name that GetClusterDashName makes of a short one.
GetDashItem(u) ==
  /\ call[u] # Nil
  /\ call[u].stage = "getDash"
  /\ HandleItem(u, item[call[u].asked.name])
  /\ UNCHANGED <<item, tokens, walk, changes>>

\* patchCluster: the request is sent to the API server that the item names,
\* whatever was written since.
SendPatch(u) ==
  /\ call[u] # Nil
  /\ call[u].stage = "patch"
  /\ \E status \in {200, 500} :
       call' = [call EXCEPT ![u] =
                  [@ EXCEPT !.stage = "answered", !.status = status, !.sent = TRUE]]
  /\ UNCHANGED <<item, tokens, walk, changes>>

\* A lookup, or the client for the cluster or its credentials, failed.
CallError(u) ==
  /\ call[u] # Nil
  /\ call[u].stage \in {"get", "getDash", "patch"}
  /\ Answer(u, 500)
  /\ UNCHANGED <<item, tokens, walk, changes>>

EndCall(u) ==
  /\ call[u] # Nil
  /\ call[u].stage = "answered"
  /\ call' = [call EXCEPT ![u] = Nil]
  /\ UNCHANGED <<item, tokens, walk, changes>>

-----------------------------------------------------------------------------
Next ==
  \/ \E n \in Name, it \in Item : Write(n, it)
  \/ \E u \in User :
       \/ \E g \in RouteGroup : Refill(u, g)
       \/ \E token \in Token, g \in RouteGroup, q \in Query, limit \in Limit :
            StartWalk(u, token, g, q, limit)
       \/ Ask(u)
       \/ AskRefused(u)
       \/ QueryPage(u)
       \/ QueryError(u)
       \/ Respond(u)
       \/ RespondPanic(u)
       \/ EndWalk(u)
       \/ \E asked \in Asked : StartCall(u, asked)
       \/ PassCall(u)
       \/ RefuseToken(u)
       \/ TooManyRequests(u)
       \/ GetItem(u)
       \/ GetDashItem(u)
       \/ SendPatch(u)
       \/ CallError(u)
       \/ EndCall(u)

\* The limiter's store fills up as time passes, the handlers go on, and a
\* reader whose request was answered with 429 asks again.
Fairness ==
  \A u \in User :
    /\ \A g \in RouteGroup : WF_vars(Refill(u, g))
    /\ WF_vars(Ask(u))
    /\ WF_vars(AskRefused(u))
    /\ WF_vars(QueryPage(u))
    /\ WF_vars(Respond(u) \/ RespondPanic(u))

Spec == Init /\ [][Next]_vars /\ Fairness

-----------------------------------------------------------------------------
(* Properties.                                                             *)

Walking(u) == walk[u] # Nil

\* The pages that more and offset lead to show every cluster that matched from
\* the first request to the last response, whatever was updated meanwhile,
\* unless another one ceased to match (the rest moves up, past the offset) or
\* a query failed (ListClusters: the error is dropped).  The list of a service
\* is held to it only when one page takes the whole table: its pages are cut
\* before the clusters without the service are left out, and more is never
\* set.
NothingMissed ==
  \A u \in User :
    (/\ Walking(u)
     /\ walk[u].stage = "done"
     /\ ~walk[u].left /\ ~walk[u].failed
     /\ walk[u].route = "clusters" \/ walk[u].limit >= N)
    => walk[u].steady \subseteq ToSet(walk[u].listed)

\* No cluster is shown on two pages unless another one began to match between
\* the requests: the offset counts what the filter of ListClusters finds.
NothingTwice ==
  \A u \in User :
    Walking(u) /\ ~walk[u].joined => IsInjective(walk[u].listed)

\* An offset that a reader computes from limit and more is never past the end
\* of the list (the slice in ListClusters would panic) unless a cluster ceased
\* to match since.
NoPanic ==
  \A u \in User : Walking(u) /\ walk[u].stage = "panic" => walk[u].left

\* A condition on lastUpdated that orders by "<", ">" or ">=" tells the items
\* of the table apart as time does whenever they are of another day than the
\* date asked for: parseValue compares texts, and those of one day compare
\* alike at all times of that day.
DatesByDay ==
  \A n \in Name, q \in Query : \A c \in q.conditions :
    (/\ item[n] # Nil
     /\ c.field = "lastUpdated"
     /\ c.operand \in {"<", ">", ">="}
     /\ item[n].lastUpdated.day # c.value.day)
    => (Build(item[n], {c}) <=> (Before(item[n].lastUpdated, c.value) <=> c.operand = "<"))

\* What is sent to a cluster was asked for with the token of a member of the
\* authorized group, and its tags are on or off, along every path through
\* Register, getCluster and Validate.
PatchedByGroup ==
  \A u \in User :
    call[u] # Nil /\ call[u].sent =>
      /\ call[u].asked.method = "PATCH" /\ call[u].asked.token = "member"
      /\ \A tag \in call[u].asked.tags : tag.value \in {"on", "off"}

\* A cluster that was registered when the request was made is found, under its
\* name or its short name, between whichever updates getCluster reads the
\* table.  The metadata of a service is found under the name only, as long as
\* no update takes it away.
RegisteredIsFound ==
  \A u \in User :
    call[u] # Nil /\ call[u].status = 404 =>
      IF call[u].asked.method = "SERVICE"
      THEN call[u].asked.short \/ ~call[u].served
      ELSE ~call[u].registered

\* Every list that a caller began to read comes to an end, by a last page, an
\* empty or refused response or a cut connection: ListClusters leaves the loop
\* over LastEvaluatedKey, more is FALSE at last, and a caller that RateLimiter
\* refuses is let through later.
WalkEnds ==
  \A u \in User : Walking(u) ~> (Walking(u) => walk[u].stage \in {"done", "panic"})

=============================================================================
