----------------------------- MODULE RoutesProofs ---------------------------
(***************************************************************************)
(* Theorems about Routes, for any number of callers, clusters and updates  *)
(* of the table.                                                           *)
(*                                                                         *)
(* Of a request about one cluster the invariant says in each of its stages *)
(* what has been checked before it got there, and relates what was         *)
(* recorded of the cluster to the table as it is now: an update never      *)
(* removes an item.  Of a list that is read page by page it says what      *)
(* ListProofs calls Orderly.                                               *)
(***************************************************************************)
EXTENDS ListProofs

CallTypes ==
  /\ item \in [Name -> Item \cup {Nil}]
  /\ call \in [User -> Call \cup {Nil}]

\* What has been checked of a request c by the time it is where it is.
Checked(c) ==
  /\ c.stage \in {"get", "getDash", "patch"} /\ c.asked.method = "PATCH"
       => c.asked.token = "member"
  /\ c.stage = "getDash" => c.asked.method # "SERVICE"
  /\ c.stage = "patch" => c.asked.method = "PATCH" /\ Validate(c.asked.tags)
  /\ c.sent => c.asked.method = "PATCH" /\ c.asked.token = "member" /\ Validate(c.asked.tags)
  /\ c.stage # "answered" => c.status = 0

\* The table still holds what the history of c says of it, and c was not
\* answered with 404 in spite of it.
Recorded(c) ==
  /\ c.registered => item[c.asked.name] # Nil
  /\ c.served => item[c.asked.name] # Nil /\ item[c.asked.name].service
  /\ c.status = 404 =>
       IF c.asked.method = "SERVICE" THEN c.asked.short \/ ~c.served ELSE ~c.registered

CallInv ==
  /\ CallTypes
  /\ \A u \in User : call[u] # Nil => Checked(call[u]) /\ Recorded(call[u])

\* The steps about lists leave the table and the requests for one cluster alone.
ListStep(u) ==
  \/ \E g \in RouteGroup : Refill(u, g)
  \/ \E token \in Token, g \in RouteGroup, q \in Query, limit \in Limit :
       StartWalk(u, token, g, q, limit)
  \/ Ask(u) \/ AskRefused(u) \/ QueryPage(u) \/ QueryError(u)
  \/ Respond(u) \/ RespondPanic(u) \/ EndWalk(u)

\* A request keeps its type when its stage and status change.
LEMMA AnswerKeepsType ==
  ASSUME NEW c \in Call, NEW status \in Status
  PROVE  [c EXCEPT !.stage = "answered", !.status = status] \in Call
BY Zenon DEF Call

\* A stage of a call leaves a typed call.
LEMMA StageKeepsType ==
  ASSUME NEW c \in Call, NEW stage \in {"get", "getDash", "patch"}
  PROVE  [c EXCEPT !.stage = stage] \in Call
BY DEF Call

\* Initially there are no requests.
LEMMA CallInit == Init => CallInv
BY RoutesAssumption DEF Init, CallInv, CallTypes, Name

\* Writing an item (PutCluster) takes no cluster away.
LEMMA WriteKeepsCallInv ==
  ASSUME CallInv, NEW n \in Name, NEW it \in Item, Write(n, it)
  PROVE  CallInv'
<1> USE DEF CallInv, CallTypes
<1>1. it # Nil
  BY RoutesAssumption
<1>2. item' \in [Name -> Item \cup {Nil}]
  BY Zenon DEF Write
<1>3. ASSUME NEW u \in User, call[u] # Nil, call[u].asked.name = n
      PROVE  /\ call'[u] = [call[u] EXCEPT !.served = @ /\ it.service]
             /\ call[u] \in Call
             /\ call'[u] \in Call
             /\ call'[u].served <=> (call[u].served /\ it.service)
  BY <1>3, Zenon DEF Write, Call
<1>4. ASSUME NEW u \in User, call[u] = Nil \/ call[u].asked.name # n
      PROVE  call'[u] = call[u]
  BY <1>4, Zenon DEF Write
<1>5. call' \in [User -> Call \cup {Nil}]
  <2>1. \A u \in User : call'[u] \in Call \cup {Nil}
    BY <1>3, <1>4, Zenon
  <2>2. call' = [u \in User |-> call'[u]]
    BY Zenon DEF Write
  <2> QED BY <2>1, <2>2
<1>6. ASSUME NEW u \in User, call'[u] # Nil
      PROVE  Checked(call[u])' /\ Recorded(call[u])'
  <2>1. CASE call[u] # Nil /\ call[u].asked.name = n
    <3>1. Checked(call[u])'
      BY <1>3, <2>1, ZenonT(30) DEF Checked, Call
    <3>2. item'[n] = it
      BY Zenon DEF Write
    <3>3. /\ call'[u].asked = call[u].asked
          /\ call'[u].registered = call[u].registered
          /\ call'[u].status = call[u].status
      BY <1>3, <2>1, Zenon DEF Call
    <3>4. Recorded(call[u])
      BY <2>1
    <3>5. call'[u].served <=> (call[u].served /\ it.service)
      BY <1>3, <2>1, Zenon
    <3>6. Recorded(call[u])'
      <4>1. item'[call'[u].asked.name] = it
        BY <2>1, <3>2, <3>3
      <4>2. call'[u].served => it.service
        BY <3>5
      <4>3. call'[u].status = 404 =>
              IF call'[u].asked.method = "SERVICE"
              THEN call'[u].asked.short \/ ~call'[u].served ELSE ~call'[u].registered
        <5>1. SUFFICES ASSUME call'[u].status = 404
                       PROVE  IF call'[u].asked.method = "SERVICE"
                              THEN call'[u].asked.short \/ ~call'[u].served
                              ELSE ~call'[u].registered
          OBVIOUS
        <5>2. IF call[u].asked.method = "SERVICE"
              THEN call[u].asked.short \/ ~call[u].served ELSE ~call[u].registered
          BY <3>3, <3>4, <5>1 DEF Recorded
        <5>3. CASE call[u].asked.method = "SERVICE"
          BY <3>3, <3>5, <5>2, <5>3, Zenon
        <5>4. CASE call[u].asked.method # "SERVICE"
          BY <3>3, <5>2, <5>4, Zenon
        <5> QED BY <5>3, <5>4
      <4> QED BY <1>1, <4>1, <4>2, <4>3, Zenon DEF Recorded
    <3> QED BY <3>1, <3>6
  <2>2. CASE call[u] # Nil /\ call[u].asked.name # n
    <3>1. call[u] \in Call /\ call'[u] = call[u]
      BY <1>4, <2>2
    <3>2. call[u].asked.name \in Name
      BY <3>1 DEF Call, Asked
    <3>3. item'[call[u].asked.name] = item[call[u].asked.name]
      BY <2>2, <3>2, Zenon DEF Write
    <3> QED BY <2>2, <3>1, <3>3 DEF Checked, Recorded
  <2>3. CASE call[u] = Nil
    BY <1>4, <1>6, <2>3
  <2> QED BY <2>1, <2>2, <2>3
<1> QED BY <1>2, <1>5, <1>6

-----------------------------------------------------------------------------
\* A step that changes the request of one caller and not the table.
LEMMA OneCall ==
  ASSUME CallInv, NEW u \in User, NEW c \in Call \cup {Nil},
         item' = item, call' = [call EXCEPT ![u] = c],
         c # Nil => Checked(c) /\ Recorded(c)
  PROVE  CallInv'
<1>1. CallTypes'
  BY DEF CallInv, CallTypes
<1>2. ASSUME NEW v \in User, call'[v] # Nil
      PROVE  Checked(call[v])' /\ Recorded(call[v])'
  <2>1. CASE v = u
    <3>1. call'[v] = c
      BY <2>1 DEF CallInv, CallTypes
    <3> QED BY <1>2, <3>1 DEF Checked, Recorded
  <2>2. CASE v # u
    <3>1. call'[v] = call[v]
      BY <2>2 DEF CallInv, CallTypes
    <3>2. Checked(call[v]) /\ Recorded(call[v])
      BY <1>2, <3>1 DEF CallInv
    <3> QED BY <3>1, <3>2 DEF Checked, Recorded
  <2> QED BY <2>1, <2>2
<1> QED BY <1>1, <1>2 DEF CallInv

\* A response with any status but 404.
LEMMA AnswerKeepsCallInv ==
  ASSUME CallInv, NEW u \in User, call[u] # Nil,
         NEW status \in Status \ {404}, item' = item, Answer(u, status)
  PROVE  CallInv'
<1> DEFINE c == [call[u] EXCEPT !.stage = "answered", !.status = status]
<1>1. call[u] \in Call
  BY DEF CallInv, CallTypes
<1>2. c \in Call
  BY <1>1, AnswerKeepsType, Zenon
<1>3. call' = [call EXCEPT ![u] = c]
  BY <1>1, Zenon DEF Answer, CallInv, CallTypes
<1>4. /\ c.asked = call[u].asked /\ c.sent = call[u].sent
      /\ c.registered = call[u].registered /\ c.served = call[u].served
      /\ c.stage = "answered" /\ c.status = status
  BY <1>1 DEF Call
<1>5. Checked(call[u]) /\ Recorded(call[u])
  BY DEF CallInv
<1> HIDE DEF c
<1>6. Checked(c)
  BY <1>4, <1>5 DEF Checked
<1>7. Recorded(c)
  BY <1>4, <1>5 DEF Recorded
<1> QED BY <1>2, <1>3, <1>6, <1>7, OneCall, Zenon

\* A response with 404: the handler has found nothing, or no such service.
LEMMA NotFoundKeepsCallInv ==
  ASSUME CallInv, NEW u \in User, call[u] # Nil, item' = item, Answer(u, 404),
         IF call[u].asked.method = "SERVICE"
         THEN call[u].asked.short \/ ~call[u].served ELSE ~call[u].registered
  PROVE  CallInv'
<1> DEFINE c == [call[u] EXCEPT !.stage = "answered", !.status = 404]
<1>1. call[u] \in Call
  BY DEF CallInv, CallTypes
<1>2. c \in Call
  <2>1. 404 \in Status
    BY DEF Status
  <2> QED BY <1>1, <2>1, AnswerKeepsType, Zenon
<1>3. call' = [call EXCEPT ![u] = c]
  BY <1>1, ZenonT(30) DEF Answer, CallInv, CallTypes
<1>4. /\ c.asked = call[u].asked /\ c.sent = call[u].sent
      /\ c.registered = call[u].registered /\ c.served = call[u].served
      /\ c.stage = "answered"
  BY <1>1 DEF Call
<1>5. Checked(call[u]) /\ Recorded(call[u])
  BY DEF CallInv
<1> HIDE DEF c
<1>6. Checked(c)
  BY <1>4, <1>5 DEF Checked
<1>7. Recorded(c)
  BY <1>4, <1>5 DEF Recorded
<1> QED BY <1>2, <1>3, <1>6, <1>7, OneCall, Zenon

\* A request goes on to a stage for which it has been checked.
LEMMA StageKeepsCallInv ==
  ASSUME CallInv, NEW u \in User, call[u] # Nil, call[u].stage # "answered",
         NEW stage \in {"get", "getDash", "patch"}, item' = item,
         call' = [call EXCEPT ![u].stage = stage],
         call[u].asked.method = "PATCH" => call[u].asked.token = "member",
         stage = "getDash" => call[u].asked.method # "SERVICE",
         stage = "patch" => call[u].asked.method = "PATCH" /\ Validate(call[u].asked.tags)
  PROVE  CallInv'
<1> DEFINE c == [call[u] EXCEPT !.stage = stage]
<1>1. call[u] \in Call
  BY DEF CallInv, CallTypes
<1>2. c \in Call
  BY <1>1, StageKeepsType, Zenon
<1>3. call' = [call EXCEPT ![u] = c]
  BY <1>1 DEF CallInv, CallTypes
<1>4. /\ c.asked = call[u].asked /\ c.sent = call[u].sent
      /\ c.registered = call[u].registered /\ c.served = call[u].served
      /\ c.stage = stage /\ c.status = call[u].status
  BY <1>1 DEF Call
<1>5. Checked(call[u]) /\ Recorded(call[u])
  BY DEF CallInv
<1> HIDE DEF c
<1>6. Checked(c)
  BY <1>4, <1>5 DEF Checked
<1>7. Recorded(c)
  BY <1>4, <1>5 DEF Recorded
<1> QED BY <1>2, <1>3, <1>6, <1>7, OneCall, Zenon

\* HandleItem gets a registered cluster's item or, from a short name that is
\* not looked up again, Nil.
LEMMA HandleItemKeepsCallInv ==
  ASSUME CallInv, NEW u \in User, call[u] # Nil,
         call[u].stage \in {"get", "getDash"},
         NEW it,
         \/ it = item[call[u].asked.name]
         \/ it = Nil /\ call[u].asked.short /\ call[u].asked.method = "SERVICE",
         item' = item, HandleItem(u, it)
  PROVE  CallInv'
<1>1. call[u] \in Call
  BY DEF CallInv, CallTypes
<1>2. call[u].asked.method \in Method
  BY <1>1 DEF Call, Asked
<1>3. Checked(call[u]) /\ Recorded(call[u])
  BY DEF CallInv
<1>4. CASE it = Nil
  <2>1. Answer(u, 404)
    BY <1>2, <1>4, Zenon DEF HandleItem, Method, GetCluster, GetServiceMetadataForCluster,
                        GetClusterWithService, PatchCluster
  <2>2. IF call[u].asked.method = "SERVICE"
        THEN call[u].asked.short \/ ~call[u].served ELSE ~call[u].registered
    BY <1>3, <1>4 DEF Recorded
  <2> QED BY <2>1, <2>2, NotFoundKeepsCallInv
<1>5. CASE it # Nil /\ call[u].asked.method = "GET"
  <2>1. Answer(u, 200)
    BY <1>5 DEF HandleItem, GetCluster
  <2>2. 200 \in Status \ {404}
    BY DEF Status
  <2> QED BY <2>1, <2>2, AnswerKeepsCallInv
<1>6. CASE it # Nil /\ call[u].asked.method = "SERVICE"
  <2>1. Answer(u, IF GetClusterWithService(it) = Nil THEN 404 ELSE 200)
    BY <1>6 DEF HandleItem, GetServiceMetadataForCluster
  <2>2. CASE it.service
    <3>1. Answer(u, 200)
      BY <1>6, <2>1, <2>2 DEF GetClusterWithService
    <3>2. 200 \in Status \ {404}
      BY DEF Status
    <3> QED BY <3>1, <3>2, AnswerKeepsCallInv
  <2>3. CASE ~it.service
    <3>1. Answer(u, 404)
      BY <1>6, <2>1, <2>3 DEF GetClusterWithService
    <3>2. ~call[u].served
      BY <1>3, <1>6, <2>3, Zenon DEF Recorded
    <3> QED BY <1>6, <3>1, <3>2, NotFoundKeepsCallInv
  <2> QED BY <2>2, <2>3
<1>7. CASE it # Nil /\ call[u].asked.method = "PATCH"
  <2>1. call[u].asked.token = "member"
    BY <1>3, <1>7 DEF Checked
  <2>2. CASE Validate(call[u].asked.tags)
    <3>1. call' = [call EXCEPT ![u].stage = "patch"]
      BY <1>7, <2>2 DEF HandleItem, PatchCluster
    <3> QED BY <1>7, <2>1, <2>2, <3>1, StageKeepsCallInv, Zenon
  <2>3. CASE ~Validate(call[u].asked.tags)
    <3>1. Answer(u, 400)
      BY <1>7, <2>3, Zenon DEF HandleItem, PatchCluster
    <3>2. 400 \in Status \ {404}
      BY DEF Status
    <3> QED BY <3>1, <3>2, AnswerKeepsCallInv
  <2> QED BY <2>2, <2>3
<1> QED BY <1>2, <1>4, <1>5, <1>6, <1>7 DEF Method

\* PATCH is sent by a request that has been checked.
LEMMA SendPatchKeepsCallInv ==
  ASSUME CallInv, NEW u \in User, SendPatch(u)
  PROVE  CallInv'
<1>1. PICK status \in {200, 500} :
        call' = [call EXCEPT ![u] =
                   [@ EXCEPT !.stage = "answered", !.status = status, !.sent = TRUE]]
  BY Zenon DEF SendPatch
<1> DEFINE c == [call[u] EXCEPT !.stage = "answered", !.status = status, !.sent = TRUE]
<1>2. call[u] # Nil /\ call[u].stage = "patch" /\ item' = item
  BY DEF SendPatch
<1>3. call[u] \in Call
  BY <1>2 DEF CallInv, CallTypes
<1>4. status \in Status /\ status # 404
  BY DEF Status
<1>5. c \in Call
  BY <1>3, <1>4, Zenon DEF Call
<1>6. call' = [call EXCEPT ![u] = c]
  BY <1>1
<1>7. /\ c.asked = call[u].asked /\ c.sent = TRUE
      /\ c.registered = call[u].registered /\ c.served = call[u].served
      /\ c.stage = "answered" /\ c.status = status
  BY <1>3 DEF Call
<1>8. Checked(call[u]) /\ Recorded(call[u])
  BY <1>2 DEF CallInv
<1> HIDE DEF c
<1>9. Checked(c)
  BY <1>2, <1>7, <1>8 DEF Checked
<1>10. Recorded(c)
  BY <1>4, <1>7, <1>8 DEF Recorded
<1>11. item' = item /\ c \in Call \cup {Nil}
  BY <1>2, <1>5
<1> QED BY <1>6, <1>9, <1>10, <1>11, OneCall, Zenon

\* A new request records the table as it is.
LEMMA StartCallKeepsCallInv ==
  ASSUME CallInv, NEW u \in User, NEW asked \in Asked, StartCall(u, asked)
  PROVE  CallInv'
<1> DEFINE c == [asked |-> asked, stage |-> "ask", status |-> 0, sent |-> FALSE,
                 registered |-> item[asked.name] # Nil,
                 served |-> item[asked.name] # Nil /\ item[asked.name].service]
<1>1. item' = item /\ call' = [call EXCEPT ![u] = c]
  BY DEF StartCall
<1>2. 0 \in Status
  BY DEF Status
<1>3. c \in Call
  BY <1>2 DEF Call
<1>4. Checked(c)
  BY DEF Checked
<1>5. /\ c.asked = asked /\ c.status = 0
      /\ c.registered <=> item[asked.name] # Nil
      /\ c.served <=> (item[asked.name] # Nil /\ item[asked.name].service)
  BY Zenon
<1> HIDE DEF c
<1>6. Recorded(c)
  <2>1. c.status # 404
    BY <1>5
  <2> QED BY <1>5, <2>1, Zenon DEF Recorded
<1>7. c \in Call \cup {Nil}
  BY <1>3
<1> QED BY <1>1, <1>4, <1>6, <1>7, OneCall, Zenon

\* Every step of Routes keeps the invariant.
LEMMA CallNext == CallInv /\ [Next]_vars => CallInv'
<1> SUFFICES ASSUME CallInv, [Next]_vars PROVE CallInv'
  OBVIOUS
<1>1. ASSUME NEW n \in Name, NEW it \in Item, Write(n, it) PROVE CallInv'
  BY <1>1, WriteKeepsCallInv
<1>2. ASSUME item' = item, call' = call PROVE CallInv'
  BY <1>2 DEF CallInv, CallTypes, Checked, Recorded
<1>3. ASSUME NEW u \in User, ListStep(u) PROVE CallInv'
  <2>1. item' = item /\ call' = call
    BY <1>3, Zenon DEF ListStep, Refill, StartWalk, Ask, AskRefused, QueryPage, QueryError,
                Respond, RespondPanic, EndWalk
  <2> QED BY <1>2, <2>1
<1>4. ASSUME NEW u \in User, NEW asked \in Asked, StartCall(u, asked) PROVE CallInv'
  BY <1>4, StartCallKeepsCallInv
<1>5. ASSUME NEW u \in User, PassCall(u) PROVE CallInv'
  <2>1. call[u] # Nil /\ call[u].stage = "ask" /\ item' = item
    BY <1>5 DEF PassCall
  <2>2. CASE call[u].asked.method = "PATCH" /\ call[u].asked.token # "member"
    <3>1. Answer(u, 403)
      BY <1>5, <2>2 DEF PassCall, VerifyGroupAccess
    <3>2. 403 \in Status \ {404}
      BY DEF Status
    <3> QED BY <2>1, <3>1, <3>2, AnswerKeepsCallInv
  <2>3. CASE ~(call[u].asked.method = "PATCH" /\ call[u].asked.token # "member")
    <3>1. call' = [call EXCEPT ![u].stage = "get"]
      BY <1>5, <2>3 DEF PassCall, VerifyGroupAccess
    <3> QED BY <2>1, <2>3, <3>1, StageKeepsCallInv, Zenon
  <2> QED BY <2>2, <2>3
<1>6. ASSUME NEW u \in User, RefuseToken(u) PROVE CallInv'
  <2>1. call[u] # Nil /\ item' = item
    BY <1>6 DEF RefuseToken
  <2>2. PICK status \in {400, 403} : Answer(u, status)
    BY <1>6 DEF RefuseToken
  <2>3. status \in Status \ {404}
    BY DEF Status
  <2> QED BY <2>1, <2>2, <2>3, AnswerKeepsCallInv
<1>7. ASSUME NEW u \in User, TooManyRequests(u) PROVE CallInv'
  <2>1. call[u] # Nil /\ item' = item /\ Answer(u, 429)
    BY <1>7 DEF TooManyRequests
  <2>2. 429 \in Status \ {404}
    BY DEF Status
  <2> QED BY <2>1, <2>2, AnswerKeepsCallInv
<1>8. ASSUME NEW u \in User, GetItem(u) PROVE CallInv'
  <2>1. call[u] # Nil /\ call[u].stage = "get" /\ item' = item
    BY <1>8 DEF GetItem
  <2>2. CASE call[u].asked.short /\ call[u].asked.method # "SERVICE"
    <3>1. call' = [call EXCEPT ![u].stage = "getDash"]
      BY <1>8, <2>2 DEF GetItem
    <3>2. call[u].asked.method = "PATCH" => call[u].asked.token = "member"
      BY <2>1 DEF CallInv, Checked
    <3> QED BY <2>1, <2>2, <3>1, <3>2, StageKeepsCallInv, Zenon
  <2>3. CASE call[u].asked.short /\ call[u].asked.method = "SERVICE"
    <3>1. HandleItem(u, Nil)
      BY <1>8, <2>3 DEF GetItem
    <3> QED BY <2>1, <2>3, <3>1, HandleItemKeepsCallInv
  <2>4. CASE ~call[u].asked.short
    <3>1. HandleItem(u, item[call[u].asked.name])
      BY <1>8, <2>4 DEF GetItem
    <3> QED BY <2>1, <3>1, HandleItemKeepsCallInv
  <2> QED BY <2>2, <2>3, <2>4
<1>9. ASSUME NEW u \in User, GetDashItem(u) PROVE CallInv'
  <2>1. /\ call[u] # Nil /\ call[u].stage = "getDash" /\ item' = item
        /\ HandleItem(u, item[call[u].asked.name])
    BY <1>9 DEF GetDashItem
  <2> QED BY <2>1, HandleItemKeepsCallInv
<1>10. ASSUME NEW u \in User, SendPatch(u) PROVE CallInv'
  BY <1>10, SendPatchKeepsCallInv
<1>11. ASSUME NEW u \in User, CallError(u) PROVE CallInv'
  <2>1. call[u] # Nil /\ item' = item /\ Answer(u, 500)
    BY <1>11 DEF CallError
  <2>2. 500 \in Status \ {404}
    BY DEF Status
  <2> QED BY <2>1, <2>2, AnswerKeepsCallInv
<1>12. ASSUME NEW u \in User, EndCall(u) PROVE CallInv'
  <2>1. item' = item /\ call' = [call EXCEPT ![u] = Nil]
    BY <1>12 DEF EndCall
  <2> QED BY <2>1, OneCall, Zenon
<1>13. CASE UNCHANGED vars
  BY <1>2, <1>13 DEF vars
<1> QED BY <1>1, <1>3, <1>4, <1>5, <1>6, <1>7, <1>8, <1>9, <1>10, <1>11, <1>12, <1>13, SMTT(20)
        DEF Next, ListStep

\* Only a request that VerifyToken, VerifyGroupAccess and Validate let pass is
\* sent to a cluster as a PATCH.
THEOREM PatchesAreAuthorized == Spec => []PatchedByGroup
<1>1. CallInv => PatchedByGroup
  BY DEF CallInv, Checked, PatchedByGroup, Validate, validateTag
<1> QED BY <1>1, CallInit, CallNext, PTL DEF Spec

\* getCluster finds every cluster that was registered when the request was
\* made, by its name and by its short name.
THEOREM LookupsFind == Spec => []RegisteredIsFound
<1>1. CallInv => RegisteredIsFound
  BY DEF CallInv, Recorded, RegisteredIsFound
<1> QED BY <1>1, CallInit, CallNext, PTL DEF Spec

-----------------------------------------------------------------------------
(* Every step.                                                             *)

\* One reader goes on: the others are where they were.
LEMMA OneWalk ==
  ASSUME WalkInv, NEW u \in User, item' = item,
         NEW v, v = Nil \/ (v \in Walk /\ Orderly(item, v)),
         walk' = [walk EXCEPT ![u] = v]
  PROVE  WalkInv'
<1>1. walk' \in [User -> Walk \cup {Nil}] /\ walk'[u] = v
      /\ \A x \in User : x # u => walk'[x] = walk[x]
  BY DEF WalkInv
<1>2. ASSUME NEW x \in User, walk'[x] # Nil PROVE Orderly(item', walk'[x])
  <2>1. CASE x = u
    BY <1>1, <1>2, <2>1
  <2>2. CASE x # u
    BY <1>1, <1>2, <2>2 DEF WalkInv
  <2> QED BY <2>1, <2>2
<1> QED BY <1>1, <1>2 DEF WalkInv

\* Writing an item moves no list on; it only changes what matches.
LEMMA WriteKeepsWalkInv ==
  ASSUME WalkInv, NEW n \in Name, NEW it \in Item, Write(n, it)
  PROVE  WalkInv'
<1> DEFINE v(u) == [walk[u] EXCEPT
             !.steady = walk[u].steady \cap MatchingIn(item', walk[u]),
             !.joined = walk[u].joined
                        \/ ~(CountedIn(item', walk[u]) \subseteq CountedIn(item, walk[u])),
             !.left = walk[u].left
                      \/ ~(CountedIn(item, walk[u]) \subseteq CountedIn(item', walk[u]))]
<1>1. item' \in [Name -> Item \cup {Nil}]
  BY Zenon DEF WalkInv, Write
<1>2. walk' = [u \in User |-> IF walk[u] = Nil THEN Nil ELSE v(u)]
  BY Zenon DEF Write
<1>3. ASSUME NEW u \in User, walk[u] # Nil PROVE v(u) \in Walk /\ Orderly(item', v(u))
  <2>1. walk[u] \in Walk /\ Orderly(item, walk[u])
    BY <1>3 DEF WalkInv
  <2> QED BY <2>1, WriteIsOrderly, ZenonT(30)
<1> HIDE DEF v
<1>4. walk' \in [User -> Walk \cup {Nil}]
  BY <1>2, <1>3
<1>5. ASSUME NEW u \in User, walk'[u] # Nil PROVE Orderly(item', walk'[u])
  BY <1>2, <1>3, <1>5
<1> QED BY <1>1, <1>4, <1>5, Zenon DEF WalkInv

\* A list is begun with nothing listed and offset 0.
LEMMA StartWalkKeepsWalkInv ==
  ASSUME WalkInv, NEW u \in User, NEW token \in Token, NEW g \in RouteGroup, NEW q \in Query,
         NEW limit \in Limit, StartWalk(u, token, g, q, limit)
  PROVE  WalkInv'
<1> DEFINE w == [token |-> token, route |-> g, query |-> q, limit |-> limit, offset |-> 0,
                 stage |-> "ask", key |-> 0, found |-> <<>>, listed |-> <<>>,
                 steady |-> {}, joined |-> FALSE, left |-> FALSE, failed |-> FALSE]
           v == [w EXCEPT !.steady = MatchingIn(item, w)]
<1>1. item' = item /\ walk' = [walk EXCEPT ![u] = v]
  BY Zenon DEF StartWalk
<1>2. v.query = w.query /\ v.route = w.route
  OBVIOUS
<1>3. MatchingIn(item, v) = MatchingIn(item, w) /\ MatchingIn(item, w) \in SUBSET Name
  BY <1>2, SameQuery, CountedType, Zenon
<1>4. v \in Walk
  <2>1. <<>> \in Seq(Name) /\ <<>> \in Seq([name: Name, service: BOOLEAN]) /\ 0 \in 0 .. N
    BY RoutesAssumption
  <2> QED BY <1>3, <2>1, Zenon DEF Walk
<1>5. /\ v.stage = "ask" /\ v.offset = 0 /\ v.listed = <<>> /\ v.steady = MatchingIn(item, w)
      /\ ~v.joined /\ ~v.left
  OBVIOUS
<1> HIDE DEF v
<1>6. Orderly(item, v)
  BY <1>3, <1>4, <1>5, StartIsOrderly, Zenon
<1> QED BY <1>1, <1>4, <1>6, OneWalk, Zenon

\* The request for a page passes the limiter.
LEMMA AskKeepsWalkInv ==
  ASSUME WalkInv, NEW u \in User, Ask(u)
  PROVE  WalkInv'
<1> DEFINE w == walk[u]
           v == [w EXCEPT !.stage = "query", !.key = 0, !.found = <<>>]
<1>1. w \in Walk /\ Orderly(item, w) /\ w.stage = "ask"
  BY DEF WalkInv, Ask
<1>2. item' = item /\ walk' = [walk EXCEPT ![u] = v]
  BY Zenon DEF Ask, WalkInv
<1> HIDE DEF w
<1>3. v \in Walk
  <2>1. <<>> \in Seq([name: Name, service: BOOLEAN]) /\ 0 \in 0 .. N
    BY RoutesAssumption
  <2> QED BY <1>1, <2>1, Zenon DEF Walk
<1>4. /\ v.query = w.query /\ v.route = w.route /\ v.limit = w.limit /\ v.offset = w.offset
      /\ v.listed = w.listed /\ v.steady = w.steady /\ v.joined = w.joined /\ v.left = w.left
      /\ v.stage = "query" /\ v.key = 0 /\ v.found = <<>>
  BY <1>1 DEF Walk
<1> HIDE DEF v
<1>5. Orderly(item, v)
  BY <1>1, <1>3, <1>4, AskIsOrderly, Zenon
<1> QED BY <1>2, <1>3, <1>5, OneWalk, Zenon

\* The request is refused, or the query fails and the error is dropped.
LEMMA FailureKeepsWalkInv ==
  ASSUME WalkInv, NEW u \in User, AskRefused(u) \/ QueryError(u)
  PROVE  WalkInv'
<1> DEFINE w == walk[u]
           v == [w EXCEPT !.stage = "done", !.failed = TRUE]
<1>1. w \in Walk /\ Orderly(item, w)
  BY DEF WalkInv, AskRefused, QueryError
<1>2. item' = item /\ walk' = [walk EXCEPT ![u] = v]
  BY Zenon DEF AskRefused, QueryError, WalkInv
<1> HIDE DEF w
<1>3. v \in Walk
  BY <1>1, Zenon DEF Walk
<1>4. /\ v.query = w.query /\ v.route = w.route /\ v.limit = w.limit /\ v.offset = w.offset
      /\ v.listed = w.listed /\ v.steady = w.steady /\ v.joined = w.joined /\ v.left = w.left
      /\ v.stage = "done" /\ v.failed
  BY <1>1 DEF Walk
<1> HIDE DEF v
<1>5. Orderly(item, v)
  BY <1>1, <1>3, <1>4, FailureIsOrderly, Zenon
<1> QED BY <1>2, <1>3, <1>5, OneWalk, Zenon

\* Query or Scan returns a page and LastEvaluatedKey.
LEMMA QueryPageKeepsWalkInv ==
  ASSUME WalkInv, NEW u \in User, QueryPage(u)
  PROVE  WalkInv'
<1> DEFINE w == walk[u]
           hits == {n \in Evaluated(w.key) : Matches(item[n], w.query)}
           key == IF w.key + PageSize > N THEN N ELSE w.key + PageSize
           v == [w EXCEPT !.found = w.found \o Read(hits), !.key = key,
                          !.stage = IF key = N THEN "answer" ELSE "query"]
<1>1. w \in Walk /\ Orderly(item, w) /\ w.stage = "query" /\ item \in [Name -> Item \cup {Nil}]
  BY Zenon DEF WalkInv, QueryPage
<1>2. /\ item' = item
      /\ walk' = [walk EXCEPT ![u].found = @ \o Read(hits), ![u].key = key,
                              ![u].stage = IF key = N THEN "answer" ELSE "query"]
  BY Zenon DEF QueryPage
<1>3. /\ hits = {n \in Evaluated(w.key) : Matches(item[n], w.query)}
      /\ key = IF w.key + PageSize > N THEN N ELSE w.key + PageSize
  OBVIOUS
<1> HIDE DEF hits, key
<1>4. walk' = [walk EXCEPT ![u] = v]
  BY <1>2, Zenon DEF WalkInv
<1> HIDE DEF w
<1>5. v \in Walk /\ Orderly(item, v)
  BY <1>1, <1>3, QueryIsOrderly, Zenon
<1> HIDE DEF v
<1> QED BY <1>2, <1>4, <1>5, OneWalk, Zenon

\* The handler answers with a page and more.
LEMMA RespondKeepsWalkInv ==
  ASSUME WalkInv, NEW u \in User, Respond(u)
  PROVE  WalkInv'
<1> DEFINE w == walk[u]
           page == Page(w.found, w.offset, w.limit)
           shown == IF w.route = "services" THEN ListClustersWithService(page) ELSE page
           more == IF w.route = "services" THEN More(shown, w.offset, w.limit)
                                           ELSE More(w.found, w.offset, w.limit)
           listed == w.listed \o [i \in DOMAIN shown |-> shown[i].name]
           v == [w EXCEPT !.listed = listed,
                          !.offset = IF more THEN w.offset + w.limit ELSE w.offset,
                          !.stage = IF more THEN "ask" ELSE "done"]
<1>1. w \in Walk /\ Orderly(item, w) /\ w.stage = "answer"
  BY Zenon DEF WalkInv, Respond
<1>2. /\ item' = item /\ ~Panics(w.found, w.offset, w.limit)
      /\ walk' = [walk EXCEPT
                    ![u].listed = @ \o [i \in DOMAIN shown |-> shown[i].name],
                    ![u].offset = IF more THEN @ + w.limit ELSE @,
                    ![u].stage = IF more THEN "ask" ELSE "done"]
  BY Zenon DEF Respond
<1>3. /\ w.route \in RouteGroup /\ w.listed \in Seq(Name) /\ w.offset \in Nat /\ w.limit \in Limit
      /\ w.found \in Seq(Found)
  BY <1>1, Zenon DEF Walk, Found
<1>4. w.limit \in Nat \ {0}
  BY <1>3, RoutesAssumption, Zenon
<1>5. Ascending(w.found)
  BY <1>1 DEF Orderly, Queried, Reading
<1>6. page \in Seq(Found) /\ Ascending(page)
  BY <1>2, <1>3, <1>4, <1>5, PageIsPart, Zenon
<1>7. shown \in Seq(Found)
  <2>1. ListClustersWithService(page) \in Seq(Found)
    BY <1>6, ServiceShown, Zenon
  <2> HIDE DEF page
  <2> QED BY <1>6, <2>1
<1>8. /\ w.route = "services" =>
           /\ shown = ListClustersWithService(page)
           /\ more = More(shown, w.offset, w.limit)
      /\ w.route = "clusters" => shown = page /\ more = More(w.found, w.offset, w.limit)
  <2>1. "services" # "clusters"
    OBVIOUS
  <2> QED BY <2>1, Zenon
<1> HIDE DEF shown, more
<1>9. walk' = [walk EXCEPT ![u] = v]
  BY <1>2, Zenon DEF WalkInv
<1>10. listed \in Seq(Name)
  BY <1>3, <1>7, ListMore, Zenon
<1>11. /\ listed = w.listed \o [i \in DOMAIN shown |-> shown[i].name]
       /\ page = Page(w.found, w.offset, w.limit)
  OBVIOUS
<1> HIDE DEF w, listed, page
<1>12. v \in Walk
  <2>1. (IF more THEN w.offset + w.limit ELSE w.offset) \in Nat
    BY <1>3, <1>4
  <2>2. (IF more THEN "ask" ELSE "done") \in {"ask", "query", "answer", "done", "panic"}
    OBVIOUS
  <2> QED BY <1>1, <1>10, <2>1, <2>2, Zenon DEF Walk
<1>13. /\ v.query = w.query /\ v.route = w.route /\ v.limit = w.limit
       /\ v.steady = w.steady /\ v.joined = w.joined /\ v.left = w.left
       /\ v.listed = listed
       /\ v.offset = (IF more THEN w.offset + w.limit ELSE w.offset)
       /\ v.stage = (IF more THEN "ask" ELSE "done")
  BY <1>1 DEF Walk
<1> HIDE DEF v
<1>14. CASE w.route = "clusters"
  <2>1. Orderly(item, v)
    BY <1>1, <1>2, <1>8, <1>11, <1>12, <1>13, <1>14, ClustersRespond, Zenon
  <2> QED BY <1>2, <1>9, <1>12, <2>1, OneWalk, Zenon
<1>15. CASE w.route = "services"
  <2>1. ~more
    BY <1>1, <1>2, <1>8, <1>11, <1>15, ServicesRespond, Zenon
  <2>2. v.offset = w.offset /\ v.stage = "done"
    BY <1>13, <2>1
  <2>3. Orderly(item, v)
    BY <1>1, <1>2, <1>8, <1>11, <1>12, <1>13, <1>15, <2>2, ServicesRespond, Zenon
  <2> QED BY <1>2, <1>9, <1>12, <2>3, OneWalk, Zenon
<1> QED BY <1>3, <1>14, <1>15 DEF RouteGroup

\* The handler panics.
LEMMA PanicKeepsWalkInv ==
  ASSUME WalkInv, NEW u \in User, RespondPanic(u)
  PROVE  WalkInv'
<1> DEFINE w == walk[u]
           v == [w EXCEPT !.stage = "panic"]
<1>1. /\ w \in Walk /\ Orderly(item, w) /\ w.stage = "answer"
      /\ Panics(w.found, w.offset, w.limit)
  BY DEF WalkInv, RespondPanic
<1>2. item' = item /\ walk' = [walk EXCEPT ![u] = v]
  BY DEF RespondPanic, WalkInv
<1> HIDE DEF w
<1>3. w.left
  BY <1>1, NoPanicUnlessLeft, Zenon
<1>4. v \in Walk
  BY <1>1, SMTT(20) DEF Walk
<1>5. /\ v.query = w.query /\ v.route = w.route /\ v.offset = w.offset
      /\ v.listed = w.listed /\ v.steady = w.steady /\ v.joined = w.joined /\ v.left = w.left
      /\ v.stage = "panic"
  BY <1>1 DEF Walk
<1> HIDE DEF v
<1>6. ~Open(v) /\ ~Reading(v)
  BY <1>5 DEF Open, Reading
<1>7. MatchingIn(item, v) = MatchingIn(item, w)
  BY <1>5, SameQuery, Zenon
<1>8. Queried(item, v)
  BY <1>1, <1>5, <1>6, <1>7 DEF Orderly, Queried
<1>9. ~v.joined => Passed(item, v)
  BY <1>1, <1>5, <1>6 DEF Orderly, Passed
<1> QED BY <1>2, <1>3, <1>4, <1>5, <1>8, <1>9, OneWalk, Zenon DEF Orderly

\* Initially there are no lists.
LEMMA WalkInit == Init => WalkInv
BY RoutesAssumption DEF Init, WalkInv, Name

\* The steps of requests for one cluster, and the limiter's, are not about lists.
LEMMA OtherKeepsWalkInv ==
  ASSUME WalkInv, item' = item, walk' = walk
  PROVE  WalkInv'
BY DEF WalkInv

\* Every step keeps the invariant of lists.
LEMMA WalkNext == WalkInv /\ [Next]_vars => WalkInv'
<1> SUFFICES ASSUME WalkInv, [Next]_vars PROVE WalkInv'
  OBVIOUS
<1>1. CASE UNCHANGED vars
  BY <1>1, OtherKeepsWalkInv, Zenon DEF vars
<1>2. ASSUME NEW n \in Name, NEW it \in Item, Write(n, it) PROVE WalkInv'
  BY <1>2, WriteKeepsWalkInv, Zenon
<1>3. ASSUME NEW u \in User, NEW token \in Token, NEW g \in RouteGroup, NEW q \in Query,
             NEW limit \in Limit, StartWalk(u, token, g, q, limit)
      PROVE  WalkInv'
  BY <1>3, StartWalkKeepsWalkInv, Zenon
<1>4. ASSUME NEW u \in User, Ask(u) PROVE WalkInv'
  BY <1>4, AskKeepsWalkInv, Zenon
<1>5. ASSUME NEW u \in User, AskRefused(u) \/ QueryError(u) PROVE WalkInv'
  BY <1>5, FailureKeepsWalkInv, Zenon
<1>6. ASSUME NEW u \in User, QueryPage(u) PROVE WalkInv'
  BY <1>6, QueryPageKeepsWalkInv, Zenon
<1>7. ASSUME NEW u \in User, Respond(u) PROVE WalkInv'
  BY <1>7, RespondKeepsWalkInv, Zenon
<1>8. ASSUME NEW u \in User, RespondPanic(u) PROVE WalkInv'
  BY <1>8, PanicKeepsWalkInv, Zenon
<1>9. ASSUME NEW u \in User, EndWalk(u) PROVE WalkInv'
  BY <1>9, OneWalk, Zenon DEF EndWalk
<1>10. ASSUME NEW u \in User,
              \/ \E g \in RouteGroup : Refill(u, g)
              \/ \E asked \in Asked : StartCall(u, asked)
              \/ PassCall(u) \/ RefuseToken(u) \/ TooManyRequests(u)
              \/ GetItem(u) \/ GetDashItem(u) \/ SendPatch(u) \/ CallError(u) \/ EndCall(u)
       PROVE  WalkInv'
  <2>1. item' = item /\ walk' = walk
    BY <1>10, Zenon DEF Refill, StartCall, PassCall, RefuseToken, TooManyRequests, GetItem,
       GetDashItem, SendPatch, CallError, EndCall
  <2> QED BY <2>1, OtherKeepsWalkInv, Zenon
<1> QED
  BY <1>1, <1>2, <1>3, <1>4, <1>5, <1>6, <1>7, <1>8, <1>9, <1>10, Zenon DEF Next

-----------------------------------------------------------------------------
(* The limiter and the bound on updates.                                   *)

LimiterTypes ==
  /\ tokens \in [User -> [RouteGroup -> 0 .. Burst]]
  /\ changes \in 0 .. MaxChanges

\* RateLimiter counts a request only when there is one left.
LEMMA RateLimiterTypes ==
  ASSUME LimiterTypes, NEW u \in User, NEW g \in RouteGroup, RateLimiter(u, g), changes' = changes
  PROVE  LimiterTypes'
<1>1. tokens[u] \in [RouteGroup -> 0 .. Burst] /\ tokens[u][g] \in 0 .. Burst /\ Burst \in Nat
  BY RoutesAssumption DEF LimiterTypes
<1>2. CASE ~ApiRateLimiterEnabled
  BY <1>2 DEF RateLimiter, LimiterTypes
<1>3. CASE ApiRateLimiterEnabled
  <2>1. tokens[u][g] > 0 /\ tokens' = [tokens EXCEPT ![u][g] = @ - 1]
    BY <1>3 DEF RateLimiter
  <2>2. tokens[u][g] - 1 \in 0 .. Burst
    BY <1>1, <2>1
  <2>3. tokens' \in [User -> [RouteGroup -> 0 .. Burst]]
    BY <1>1, <2>1, <2>2 DEF LimiterTypes
  <2> QED BY <2>3 DEF LimiterTypes
<1> QED BY <1>2, <1>3

\* No step counts below zero or above the burst.
LEMMA LimiterNext == CallInv /\ WalkInv /\ LimiterTypes /\ [Next]_vars => LimiterTypes'
<1> SUFFICES ASSUME CallInv, WalkInv, LimiterTypes, [Next]_vars PROVE LimiterTypes'
  OBVIOUS
<1>1. ASSUME tokens' = tokens, changes' = changes PROVE LimiterTypes'
  BY <1>1 DEF LimiterTypes
<1>2. ASSUME NEW n \in Name, NEW it \in Item, Write(n, it) PROVE LimiterTypes'
  <2>1. tokens' = tokens /\ changes < MaxChanges /\ changes' = changes + 1
    BY <1>2, Zenon DEF Write
  <2> QED BY <2>1, RoutesAssumption DEF LimiterTypes
<1>3. ASSUME NEW u \in User, NEW g \in RouteGroup, Refill(u, g) PROVE LimiterTypes'
  <2>1. tokens[u] \in [RouteGroup -> 0 .. Burst] /\ tokens[u][g] \in 0 .. Burst /\ Burst \in Nat
    BY RoutesAssumption DEF LimiterTypes
  <2>2. tokens[u][g] < Burst /\ tokens' = [tokens EXCEPT ![u][g] = @ + 1] /\ changes' = changes
    BY <1>3 DEF Refill
  <2>3. tokens[u][g] + 1 \in 0 .. Burst
    BY <2>1, <2>2
  <2>4. tokens' \in [User -> [RouteGroup -> 0 .. Burst]]
    BY <2>1, <2>2, <2>3 DEF LimiterTypes
  <2> QED BY <2>2, <2>4 DEF LimiterTypes
<1>4. ASSUME NEW u \in User, Ask(u) PROVE LimiterTypes'
  <2>1. walk[u] \in Walk
    BY <1>4 DEF WalkInv, Ask
  <2>2. walk[u].route \in RouteGroup
    BY <2>1 DEF Walk
  <2> QED BY <1>4, <2>2, RateLimiterTypes, Zenon DEF Ask
<1>5. ASSUME NEW u \in User, PassCall(u) PROVE LimiterTypes'
  <2>1. RouteOf(call[u].asked.method) \in RouteGroup
    BY DEF RouteOf, RouteGroup
  <2> QED BY <1>5, <2>1, RateLimiterTypes, Zenon DEF PassCall
<1>6. ASSUME NEW u \in User,
             \/ \E token \in Token, g \in RouteGroup, q \in Query, limit \in Limit :
                  StartWalk(u, token, g, q, limit)
             \/ AskRefused(u) \/ QueryPage(u) \/ QueryError(u) \/ Respond(u) \/ RespondPanic(u)
             \/ EndWalk(u) \/ \E asked \in Asked : StartCall(u, asked)
             \/ RefuseToken(u) \/ TooManyRequests(u)
             \/ GetItem(u) \/ GetDashItem(u) \/ SendPatch(u) \/ CallError(u) \/ EndCall(u)
      PROVE  LimiterTypes'
  <2>1. tokens' = tokens /\ changes' = changes
    BY <1>6, Zenon DEF StartWalk, AskRefused, QueryPage, QueryError, Respond, RespondPanic,
       EndWalk,
       StartCall, RefuseToken, TooManyRequests, GetItem, GetDashItem, SendPatch, CallError, EndCall
  <2> QED BY <1>1, <2>1, Zenon
<1>7. CASE UNCHANGED vars
  BY <1>1, <1>7, Zenon DEF vars
<1> QED BY <1>2, <1>3, <1>4, <1>5, <1>6, <1>7, Zenon DEF Next

\* Initially the limiter is full.
LEMMA LimiterInit == Init => LimiterTypes
BY RoutesAssumption DEF Init, LimiterTypes

-----------------------------------------------------------------------------
(* The theorems.                                                           *)

\* The invariant of lists holds all the time.
LEMMA WalkInvariant == Spec => []WalkInv
<1> QED BY WalkInit, WalkNext, PTL DEF Spec

\* The state of the routes keeps its types: offsets are numbers, pages hold
\* names of clusters, and RateLimiter never counts below zero nor above the
\* burst.
THEOREM RoutesAreTyped == Spec => []RoutesTypeOK
<1>1. CallInv /\ WalkInv /\ LimiterTypes => RoutesTypeOK
  BY DEF CallInv, CallTypes, WalkInv, LimiterTypes, RoutesTypeOK
<1> QED
  BY <1>1, CallInit, CallNext, WalkInit, WalkNext, LimiterInit, LimiterNext, PTL DEF Spec

\* However many pages a list has, and whatever is updated between the requests
\* for them, the slice in ListClusters panics for no reader that computes its
\* offsets from limit and more, unless a cluster ceased to match.
THEOREM OffsetsStayInside == Spec => []NoPanic
<1>1. WalkInv => NoPanic
  BY DEF WalkInv, NoPanic, Walking, Orderly, Ahead
<1> QED BY <1>1, WalkInvariant, PTL

\* No cluster is listed twice unless another one began to match.
THEOREM PagesDoNotOverlap == Spec => []NothingTwice
<1>1. WalkInv => NothingTwice
  BY DEF WalkInv, NothingTwice, Walking, Orderly, Passed
<1> QED BY <1>1, WalkInvariant, PTL

\* A cluster that matches all the time is listed by the time the list is read
\* to its end, unless another one ceased to match or a query failed.
THEOREM PagesLeaveNoGap == Spec => []NothingMissed
<1>1. WalkInv => NothingMissed
  BY DEF WalkInv, NothingMissed, Walking, Orderly, Ahead
<1> QED BY <1>1, WalkInvariant, PTL

\* A condition on lastUpdated orders items of another day than its date as
\* time does, although parseValue compares texts.
THEOREM DatesAreOrderedByDay == Spec => []DatesByDay
<1>1. ASSUME WalkInv, NEW n \in Name, NEW q \in Query, NEW c \in q.conditions,
             item[n] # Nil, c.field = "lastUpdated", c.operand \in {"<", ">", ">="},
             item[n].lastUpdated.day # c.value.day
      PROVE  Build(item[n], {c}) <=> (Before(item[n].lastUpdated, c.value) <=> c.operand = "<")
  <2> DEFINE i == item[n]
             s == i.lastUpdated
             d == NewFilterConditionFromQuery(c)
  <2>1. i \in Item /\ s.day \in Nat /\ c.value.day \in Nat
    BY <1>1, RoutesAssumption DEF WalkInv
  <2>2. d.field = "lastUpdated" /\ d.operand = c.operand /\ d.value = c.value /\ d.prefix = ""
    BY <1>1 DEF NewFilterConditionFromQuery
  <2>3. Build(i, {c}) <=> Holds(i, d)
    BY Zenon DEF Build
  <2>4. Before(s, c.value) <=> s.day < c.value.day
    BY <1>1 DEF Before
  <2> HIDE DEF d, s
  <2>5. Holds(i, d) <=> DateHolds(s, d)
    BY <2>2, Zenon DEF Holds, s
  <2>6. parseValueLess(s, d) <=> s.day < c.value.day
    BY <2>2, Zenon DEF parseValueLess
  <2>7. DateHolds(s, d) <=> (parseValueLess(s, d) <=> c.operand = "<")
    <3>1. CASE c.operand = "<"
      BY <2>2, <3>1, Zenon DEF DateHolds
    <3>2. CASE c.operand \in {">", ">="}
      BY <2>2, <3>2, Zenon DEF DateHolds
    <3> QED BY <1>1, <3>1, <3>2
  <2> QED BY <2>3, <2>4, <2>5, <2>6, <2>7, SMTT(20) DEF s
<1>2. WalkInv => DatesByDay
  BY <1>1, Zenon DEF DatesByDay
<1> QED BY <1>2, WalkInvariant, PTL

=============================================================================
