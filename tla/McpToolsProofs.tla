---------------------------- MODULE McpToolsProofs ----------------------------
(***************************************************************************)
(* What the cookie tools tell a client is true, for any names and sites    *)
(* and however pages and the network service interfere; no interaction     *)
(* leaves a button or a key down, and one that answers ok was carried out  *)
(* whole, whatever their number, their paths and what the page does.       *)
(***************************************************************************)
EXTENDS McpTools, SequenceTheorems, TLAPS

Cookies == {"browser_cookie_list", "browser_cookie_get", "browser_cookie_set",
            "browser_cookie_delete", "browser_cookie_clear"}

\* The types of what the client, the tool and the network service hold.
ToolTypes ==
  /\ jar \subseteq Cookie /\ touched \subseteq Cookie
  /\ told \in [Cookie -> {"set", "gone", ""}]
  /\ request \in [tool : Cookies \cup PageTools \cup {"none"},
                  name : CookieName \cup {Absent}, site : Site \cup {Absent},
                  is : {"none", "sent", "lost", "ok", "notFound", "internalError"},
                  listed : SUBSET Cookie]
  /\ request.is = "none" => request = NoRequest
  /\ request.is \in {"ok", "notFound", "internalError", "lost"}
       => request.tool \in Cookies
  /\ request.is = "notFound" => request.tool = "browser_cookie_delete"

\* What a client was told of a cookie is so.
TrueOf(c) == (told[c] = "set" => c \in jar) /\ (told[c] = "gone" => c \notin jar)

\* The network service may have changed what the request asked it to change.
Carried ==
  request.is = "lost" \/ (request.is \in {"ok", "notFound"}
                          /\ request.tool \notin {"browser_cookie_list",
                                                  "browser_cookie_get"})

\* Until then, and of other cookies even afterwards, the client is right.
ClientIsRight ==
  \A c \in Cookie : ~Carried \/ c \notin About(request) => TrueOf(c)

\* A page's change makes the client forget, until the answer says otherwise.
TouchedForgotten == \A c \in touched : told[c] = ""

\* A reply on its way is true of every cookie no page has changed meanwhile.
ReplyIsTrue ==
  \A c \in About(request) \ touched :
    /\ request.is = "ok" /\ request.tool \in {"browser_cookie_list", "browser_cookie_get"}
         => (c \in request.listed <=> c \in jar)
    /\ request.is = "ok" /\ request.tool = "browser_cookie_set" => c \in jar
    /\ request.is \in {"ok", "notFound"} /\ request.tool = "browser_cookie_delete"
         => c \notin jar
    /\ request.is = "ok" /\ request.tool = "browser_cookie_clear" => c \notin jar

\* A request to clear is about every cookie.
ClearsAll == request.tool = "browser_cookie_clear" => About(request) = Cookie

IInv == ToolTypes /\ ClientIsRight /\ TouchedForgotten /\ ReplyIsTrue /\ ClearsAll

-----------------------------------------------------------------------------
(* The tools.                                                              *)

\* The cookie tools by name.
LEMMA CookieToolNames == DOMAIN CookieTools = Cookies
BY DEF CookieTools, Cookies

\* No other tool has the name of one.
LEMMA NotPageTools == PageTools \cap Cookies = {}
BY CookieToolNames DEF PageTools

\* Clearing takes neither a name nor an URL.
LEMMA ClearTakesNothing ==
  /\ Required["browser_cookie_clear"] = {}
  /\ Optional("browser_cookie_clear") = {}
<1> DEFINE t == "browser_cookie_clear"
<1>1. t \in DOMAIN CookieTools /\ CookieTools[t] = {}
  BY DEF CookieTools
<1>2. /\ t \notin DOMAIN NavigationTools
      /\ t \notin DOMAIN SnapshotTools
      /\ t \notin DOMAIN InteractionTools
      /\ t \notin DOMAIN EvaluateTools
      /\ t \notin DOMAIN WaitTools
      /\ t \notin DOMAIN TabTools
  BY DEF NavigationTools, SnapshotTools, InteractionTools, EvaluateTools,
         WaitTools, TabTools
<1>3. {h \in Groups : t \in DOMAIN h} = {CookieTools}
  BY <1>1, <1>2 DEF Groups
<1>4. t \in Tools
  BY <1>1 DEF Tools, Groups
<1>5. Required[t] = UNION {g[t] : g \in {h \in Groups : t \in DOMAIN h}}
  BY <1>4 DEF Required
<1>6. Required[t] = {}
  BY <1>1, <1>3, <1>5
<1> QED BY <1>6 DEF Optional

-----------------------------------------------------------------------------
(* Answers.                                                                *)

\* A request is about cookies.
LEMMA AboutCookies == ASSUME NEW r PROVE About(r) \subseteq Cookie
BY DEF About

\* At the start no client knows anything.
LEMMA InitEstablishes == ToolsInit => IInv
<1> SUFFICES ASSUME ToolsInit PROVE IInv
  OBVIOUS
<1>1. ToolTypes
  BY DEF ToolsInit, ToolTypes, NoRequest
<1>2. ClientIsRight /\ TouchedForgotten
  BY DEF ToolsInit, ClientIsRight, TrueOf, TouchedForgotten
<1>3. ReplyIsTrue /\ ClearsAll
  BY DEF ToolsInit, NoRequest, ReplyIsTrue, ClearsAll
<1> QED BY <1>1, <1>2, <1>3 DEF IInv

\* An answer tells of a cookie that it is set, or gone, or nothing.
LEMMA AnswerTyped ==
  ASSUME told \in [Cookie -> {"set", "gone", ""}], NEW r, Answers(r)
  PROVE  told' \in [Cookie -> {"set", "gone", ""}]
<1> USE DEF Learns, Set, Gone
<1>1. FormatCookieList(r) => told' \in [Cookie -> {"set", "gone", ""}]
  BY DEF FormatCookieList
<1>2. FormatCookieGet(r) => told' \in [Cookie -> {"set", "gone", ""}]
  BY DEF FormatCookieGet
<1>3. CompleteSet(r) \/ CompleteClear(r) \/ CompleteDelete(r)
        => told' \in [Cookie -> {"set", "gone", ""}]
  BY DEF CompleteSet, CompleteClear, CompleteDelete
<1> QED BY <1>1, <1>2, <1>3 DEF Answers

\* What an answer adds to what the client knows is so, of every cookie.
LEMMA AnswerIsTrue ==
  ASSUME IInv, Answers(request), UNCHANGED jar, request.is # "lost",
         NEW c \in Cookie
  PROVE  TrueOf(c)'
<1> USE DEF IInv
<1> DEFINE r == request
<1>1. c \in touched => told[c] = ""
  BY DEF TouchedForgotten
<1>2. ~Carried \/ c \notin About(r) => TrueOf(c)
  BY DEF ClientIsRight
<1>3. c \in About(r) \ touched =>
        /\ r.is = "ok" /\ r.tool \in {"browser_cookie_list", "browser_cookie_get"}
             => (c \in r.listed <=> c \in jar)
        /\ r.is = "ok" /\ r.tool = "browser_cookie_set" => c \in jar
        /\ r.is \in {"ok", "notFound"} /\ r.tool = "browser_cookie_delete" => c \notin jar
        /\ r.is = "ok" /\ r.tool = "browser_cookie_clear" => c \notin jar
  BY DEF ReplyIsTrue
<1>4. told \in [Cookie -> {"set", "gone", ""}]
  BY DEF ToolTypes
<1>5. CASE told' = told /\ ~Carried
  BY <1>2, <1>4, <1>5 DEF TrueOf
<1>6. CASE r.tool = "browser_cookie_list"
  <2>1. FormatCookieList(r)
    BY <1>6, NotPageTools DEF Answers, Cookies
  <2>2. CASE r.is = "ok"
    <3>1. told' = [d \in Cookie |-> IF d \in About(r) \ touched
                     THEN IF d \in r.listed THEN "set" ELSE "gone" ELSE told[d]]
      BY <2>1, <2>2 DEF FormatCookieList, Learns
    <3> QED BY <1>1, <1>2, <1>3, <1>4, <1>6, <2>2, <3>1 DEF TrueOf, Carried
  <2>3. CASE r.is # "ok"
    BY <1>5, <1>6, <2>1, <2>3 DEF FormatCookieList, Carried
  <2> QED BY <2>2, <2>3
<1>7. CASE r.tool = "browser_cookie_get"
  <2>1. FormatCookieGet(r)
    BY <1>7, NotPageTools DEF Answers, Cookies
  <2>2. CASE \E d \in r.listed \cap About(r) : r.is = "ok" /\ Learns({d}, Set)
    <3>1. PICK d \in r.listed \cap About(r) : r.is = "ok" /\ Learns({d}, Set)
      BY <2>2
    <3>2. told' = [e \in Cookie |-> IF e \in {d} \ touched THEN "set" ELSE told[e]]
      BY <3>1 DEF Learns, Set
    <3> QED BY <1>1, <1>2, <1>3, <1>4, <1>7, <3>1, <3>2 DEF TrueOf, Carried
  <2>3. CASE r.is = "ok" /\ r.listed \cap About(r) = {} /\ Learns(About(r), Gone)
    <3>1. told' = [d \in Cookie |-> IF d \in About(r) \ touched THEN "gone" ELSE told[d]]
      BY <2>3 DEF Learns, Gone
    <3> QED BY <1>1, <1>2, <1>3, <1>4, <1>7, <2>3, <3>1 DEF TrueOf, Carried
  <2>4. CASE r.is # "ok" /\ UNCHANGED told
    BY <1>5, <1>7, <2>4 DEF Carried
  <2> QED BY <2>1, <2>2, <2>3, <2>4 DEF FormatCookieGet
<1>8. CASE r.tool = "browser_cookie_set"
  <2>1. CompleteSet(r)
    BY <1>8, NotPageTools DEF Answers, Cookies
  <2>2. CASE r.is = "ok"
    <3>1. told' = [d \in Cookie |-> IF d \in About(r) \ touched THEN "set" ELSE told[d]]
      BY <2>1, <2>2 DEF CompleteSet, Learns, Set
    <3> QED BY <1>1, <1>2, <1>3, <1>4, <1>8, <2>2, <3>1 DEF TrueOf, Carried
  <2>3. CASE r.is = "notFound"
    BY <1>8, <2>3 DEF ToolTypes
  <2>4. CASE r.is \notin {"ok", "notFound"}
    BY <1>5, <1>8, <2>1, <2>4 DEF CompleteSet, Carried
  <2> QED BY <2>2, <2>3, <2>4
<1>9. CASE r.tool = "browser_cookie_delete"
  <2>1. CompleteDelete(r)
    BY <1>9, NotPageTools DEF Answers, Cookies
  <2>2. CASE r.is \in {"ok", "notFound"}
    <3>1. told' = [d \in Cookie |-> IF d \in About(r) \ touched THEN "gone" ELSE told[d]]
      BY <2>1, <2>2 DEF CompleteDelete, Learns, Gone
    <3> QED BY <1>1, <1>2, <1>3, <1>4, <1>9, <2>2, <3>1 DEF TrueOf, Carried
  <2>3. CASE r.is \notin {"ok", "notFound"}
    BY <1>5, <1>9, <2>1, <2>3 DEF CompleteDelete, Carried
  <2> QED BY <2>2, <2>3
<1>10. CASE r.tool = "browser_cookie_clear"
  <2>1. CompleteClear(r)
    BY <1>10, NotPageTools DEF Answers, Cookies
  <2>2. CASE r.is = "ok"
    <3>1. told' = [d \in Cookie |-> IF d \in Cookie \ touched THEN "gone" ELSE told[d]]
      BY <2>1, <2>2 DEF CompleteClear, Learns, Gone
    <3>2. About(r) = Cookie
      BY <1>10 DEF ClearsAll
    <3> QED BY <1>1, <1>2, <1>3, <1>4, <1>10, <2>2, <3>1, <3>2 DEF TrueOf, Carried
  <2>3. CASE r.is = "notFound"
    BY <1>10, <2>3 DEF ToolTypes
  <2>4. CASE r.is \notin {"ok", "notFound"}
    BY <1>5, <1>10, <2>1, <2>4 DEF CompleteClear, Carried
  <2> QED BY <2>2, <2>3, <2>4
<1>11. CASE r.tool \in PageTools
  <2>1. told' = told
    BY <1>11, NotPageTools DEF Answers, Cookies
  <2>2. ~Carried
    BY <1>11, NotPageTools DEF ToolTypes, Carried
  <2> QED BY <1>5, <2>1, <2>2
<1> QED BY <1>6, <1>7, <1>8, <1>9, <1>10, <1>11 DEF Answers

\* The tool is done with its call.
LEMMA AnswerKeeps ==
  ASSUME IInv, Answers(request), request.is # "lost",
         request' = NoRequest, touched' = {}, UNCHANGED jar
  PROVE  IInv'
<1>1. \A c \in Cookie : TrueOf(c)'
  BY AnswerIsTrue
<1>2. told' \in [Cookie -> {"set", "gone", ""}]
  BY AnswerTyped DEF IInv, ToolTypes
<1>3. ToolTypes'
  BY <1>2 DEF ToolTypes, NoRequest, IInv
<1>4. ClientIsRight' /\ TouchedForgotten'
  BY <1>1 DEF ClientIsRight, TouchedForgotten
<1>5. ReplyIsTrue' /\ ClearsAll'
  BY DEF NoRequest, ReplyIsTrue, ClearsAll
<1> QED BY <1>3, <1>4, <1>5 DEF IInv

\* Steps that are not about cookies.
LEMMA NothingChanges ==
  ASSUME IInv, UNCHANGED <<request, jar, touched, told>>
  PROVE  IInv'
BY DEF IInv, ToolTypes, ClientIsRight, TrueOf, Carried, TouchedForgotten,
       ReplyIsTrue, ClearsAll, About, Matches

-----------------------------------------------------------------------------
(* A call.                                                                 *)

\* An error tells the client nothing.
LEMMA RefuseKeeps ==
  ASSUME IInv, NEW t, NEW given, Refuse(t, given)
  PROVE  IInv'
<1>1. PICK r \in Asks(t, given), s \in {"tabNotFound", "invalidArgument"} :
        Answers([r EXCEPT !.is = s])
  BY DEF Refuse
<1>2. [r EXCEPT !.is = s].is = s
  BY DEF Asks
<1>3. UNCHANGED told
  BY <1>1, <1>2
  DEF Answers, FormatCookieList, FormatCookieGet, CompleteSet, CompleteClear,
      CompleteDelete
<1> QED BY <1>3, NothingChanges DEF Refuse

\* A tool asks the network service.
LEMMA SendKeeps ==
  ASSUME IInv, NEW t, NEW given, Send(t, given)
  PROVE  IInv'
<1> USE DEF Send, Calls
<1>1. request' \in Asks(t, given)
  OBVIOUS
<1>2. /\ request'.tool = t /\ request'.is = "sent" /\ request'.listed = {}
      /\ request'.name \in CookieName \cup {Absent}
      /\ request'.site \in Site \cup {Absent}
      /\ request' = [tool |-> t, name |-> request'.name, site |-> request'.site,
                     is |-> "sent", listed |-> {}]
  BY <1>1 DEF Asks
<1>3. t \in PageTools \cup Cookies
  BY CookieToolNames
<1>4. ToolTypes'
  BY <1>2, <1>3 DEF ToolTypes, IInv
<1>5. \A c \in Cookie : TrueOf(c)'
  BY DEF IInv, ClientIsRight, TrueOf, Carried, NoRequest
<1>6. ClientIsRight' /\ TouchedForgotten'
  BY <1>5 DEF ClientIsRight, TouchedForgotten
<1>7. ReplyIsTrue'
  BY <1>2 DEF ReplyIsTrue
<1>8. ClearsAll'
  <2> SUFFICES ASSUME t = "browser_cookie_clear" PROVE About(request') = Cookie
    BY <1>2 DEF ClearsAll
  <2>1. given = {}
    BY ClearTakesNothing
  <2>2. request'.name = Absent /\ request'.site = Absent
    BY <1>1, <2>1 DEF Asks
  <2> QED BY <2>2 DEF About, Matches
<1> QED BY <1>4, <1>6, <1>7, <1>8 DEF IInv

-----------------------------------------------------------------------------
(* The network service.                                                    *)

\* What a request was sent for is done, or refused: the client is still right
\* about the other cookies.
LEMMA ServedKeeps ==
  ASSUME IInv, NEW status \in {"ok", "notFound", "internalError"},
         NEW cookies \in SUBSET Cookie,
         request.is = "sent", request.tool \in Cookies,
         Replies(status, cookies), UNCHANGED <<touched, told>>,
         jar' \subseteq Cookie,
         \A c \in Cookie \ About(request) : c \in jar' <=> c \in jar,
         jar' = jar \/ Carried',
         status = "notFound" => request.tool = "browser_cookie_delete",
         ReplyIsTrue'
  PROVE  IInv'
<1>1. /\ request'.tool = request.tool /\ request'.name = request.name
      /\ request'.site = request.site /\ request'.is = status
      /\ request'.listed = cookies
  BY DEF Replies, IInv, ToolTypes
<1>2. About(request') = About(request)
  BY <1>1 DEF About, Matches
<1>3. ToolTypes'
  BY <1>1 DEF Replies, IInv, ToolTypes, NoRequest
<1>4. \A c \in Cookie : TrueOf(c)
  BY DEF IInv, ClientIsRight, Carried
<1>5. ClientIsRight'
  BY <1>2, <1>4 DEF ClientIsRight, TrueOf
<1>6. TouchedForgotten' /\ ClearsAll'
  BY <1>1, <1>2 DEF IInv, TouchedForgotten, ClearsAll
<1> QED BY <1>3, <1>5, <1>6 DEF IInv

\* The network service serves the call.
LEMMA ServeKeeps == ASSUME IInv, Serve PROVE IInv'
<1> USE DEF Sent, Cookies
<1>1. jar \subseteq Cookie /\ request \in [tool : Cookies \cup PageTools \cup {"none"},
                  name : CookieName \cup {Absent}, site : Site \cup {Absent},
                  is : {"none", "sent", "lost", "ok", "notFound", "internalError"},
                  listed : SUBSET Cookie]
  BY DEF IInv, ToolTypes
<1> HIDE DEF Cookies
<1>2. ASSUME NEW status, NEW cookies, Replies(status, cookies)
      PROVE  /\ request'.tool = request.tool /\ request'.is = status
             /\ request'.listed = cookies /\ About(request') = About(request)
  BY <1>1, <1>2 DEF Replies, About, Matches
<1>3. CASE ListCookies
  <2> DEFINE listed == {c \in jar : Matches(c, Absent, request.site)}
  <2>1. request.tool = "browser_cookie_list" /\ Replies("ok", listed) /\ jar' = jar
    BY <1>3 DEF ListCookies
  <2>2. \A c \in About(request) : c \in listed <=> c \in jar
    BY DEF About, Matches
  <2>3. ReplyIsTrue'
    BY <1>2, <2>1, <2>2 DEF ReplyIsTrue
  <2> QED BY <1>1, <1>3, <2>1, <2>3, ServedKeeps DEF ListCookies, Cookies
<1>4. CASE GetCookie
  <2>1. request.tool = "browser_cookie_get" /\ Replies("ok", jar) /\ jar' = jar
    BY <1>4 DEF GetCookie
  <2>2. ReplyIsTrue'
    BY <1>2, <2>1 DEF ReplyIsTrue
  <2> QED BY <1>1, <1>4, <2>1, <2>2, ServedKeeps DEF GetCookie, Cookies
<1>5. CASE SetCookie
  <2>1. CASE Replies("ok", {}) /\ jar' = jar \cup About(request)
    <3>1. ReplyIsTrue' /\ Carried'
      BY <1>2, <1>5, <2>1 DEF ReplyIsTrue, SetCookie, Carried
    <3> QED BY <1>1, <1>5, <2>1, <3>1, ServedKeeps, AboutCookies DEF SetCookie, Cookies
  <2>2. CASE Replies("internalError", {}) /\ UNCHANGED jar
    <3>1. ReplyIsTrue'
      BY <1>2, <1>5, <2>2 DEF ReplyIsTrue, SetCookie
    <3> QED BY <1>1, <1>5, <2>2, <3>1, ServedKeeps DEF SetCookie, Cookies
  <2> QED BY <1>5, <2>1, <2>2 DEF SetCookie
<1>6. CASE DeleteCookie
  <2> DEFINE status == IF jar' = jar THEN "notFound" ELSE "ok"
  <2>1. /\ request.tool = "browser_cookie_delete" /\ Replies(status, {})
        /\ jar' = jar \ About(request)
    BY <1>6 DEF DeleteCookie, DeletionFilter, About
  <2>2. ReplyIsTrue' /\ Carried'
    BY <1>2, <2>1 DEF ReplyIsTrue, Carried
  <2> QED BY <1>1, <1>6, <2>1, <2>2, ServedKeeps DEF DeleteCookie, Cookies
<1>7. CASE ClearCookies
  <2>1. request.tool = "browser_cookie_clear" /\ Replies("ok", {}) /\ jar' = {}
    BY <1>7 DEF ClearCookies
  <2>2. About(request) = Cookie
    BY <2>1 DEF IInv, ClearsAll
  <2>3. ReplyIsTrue' /\ Carried'
    BY <1>2, <2>1 DEF ReplyIsTrue, Carried
  <2> QED BY <1>1, <1>7, <2>1, <2>2, <2>3, ServedKeeps DEF ClearCookies, Cookies
<1> QED BY <1>3, <1>4, <1>5, <1>6, <1>7 DEF Serve

\* The client knows nothing any more of a cookie a page has changed.
LEMMA PageKeeps == ASSUME IInv, NEW d \in Cookie, PageSetsCookie(d) PROVE IInv'
<1> USE DEF PageSetsCookie
<1>1. About(request') = About(request) /\ (Carried' <=> Carried)
  BY DEF About, Matches, Carried
<1>2. ToolTypes'
  BY DEF IInv, ToolTypes
<1>3. told' = [told EXCEPT ![d] = ""] /\ told \in [Cookie -> {"set", "gone", ""}]
  BY DEF IInv, ToolTypes
<1>4. \A c \in Cookie \ {d} : c \in jar' <=> c \in jar
  OBVIOUS
<1>5. ClientIsRight'
  BY <1>1, <1>3, <1>4 DEF IInv, ClientIsRight, TrueOf
<1>6. touched' \subseteq touched \cup {d} /\ touched \subseteq Cookie
  BY DEF IInv, ToolTypes
<1>7. TouchedForgotten'
  BY <1>3, <1>6 DEF IInv, TouchedForgotten
<1>8. ReplyIsTrue'
  <2>1. CASE request = NoRequest
    BY <2>1 DEF ReplyIsTrue, NoRequest
  <2>2. CASE request # NoRequest
    <3>1. touched' = touched \cup {d}
      BY <2>2
    <3> QED BY <1>1, <1>4, <3>1, AboutCookies DEF IInv, ReplyIsTrue
  <2> QED BY <2>1, <2>2
<1>9. ClearsAll'
  BY <1>1 DEF IInv, ClearsAll
<1> QED BY <1>2, <1>5, <1>7, <1>8, <1>9 DEF IInv

\* The network service dies, before or after it served the call.
LEMMA LostKeeps == ASSUME IInv, NetworkServiceDies PROVE IInv'
<1> USE DEF NetworkServiceDies
<1> DEFINE written == IF request.tool = "browser_cookie_set" THEN About(request) ELSE {}
<1>1. /\ request'.tool = request.tool /\ request'.is = "lost"
      /\ request'.name = request.name /\ request'.site = request.site
  BY DEF IInv, ToolTypes
<1>2. About(request') = About(request)
  BY <1>1 DEF About, Matches
<1>3. jar' \subseteq jar \cup written /\ written \subseteq About(request)
  OBVIOUS
<1>4. told' = [c \in Cookie |-> IF c \in jar \ jar' THEN "" ELSE told[c]]
  OBVIOUS
<1>5. ToolTypes'
  BY <1>1, <1>3, <1>4, CookieToolNames, AboutCookies DEF IInv, ToolTypes, NoRequest
<1>6. \A c \in Cookie : TrueOf(c)
  BY DEF IInv, ClientIsRight, Carried
<1>7. ClientIsRight'
  BY <1>2, <1>1, <1>3, <1>4, <1>6 DEF ClientIsRight, TrueOf, Carried
<1>8. TouchedForgotten'
  BY <1>4 DEF IInv, ToolTypes, TouchedForgotten
<1>9. ReplyIsTrue' /\ ClearsAll'
  BY <1>1, <1>2 DEF IInv, ReplyIsTrue, ClearsAll
<1> QED BY <1>5, <1>7, <1>8, <1>9 DEF IInv

-----------------------------------------------------------------------------
\* What the theorems about the cookie tools rest on: the jar, the outstanding
\* call and what the client was told stay related by IInv over every step.
THEOREM Inductive == ToolsSpec => []IInv
<1>1. IInv /\ [ToolsNext]_allVars => IInv'
  <2> SUFFICES ASSUME IInv, [ToolsNext]_allVars PROVE IInv'
    OBVIOUS
  <2>1. CASE Tasks
    <3>1. CASE Serve
      BY <3>1, ServeKeeps
    <3>2. CASE ReplyArrives
      BY <3>2, AnswerKeeps DEF ReplyArrives
    <3>3. CASE PageAnswers
      <4>1. request.is # "lost"
        BY <3>3, NotPageTools DEF PageAnswers, IInv, ToolTypes
      <4> QED BY <3>3, <4>1, AnswerKeeps DEF PageAnswers
    <3>4. CASE UNCHANGED toolVars
      BY <3>4, NothingChanges DEF toolVars
    <3> QED BY <2>1, <3>1, <3>2, <3>3, <3>4 DEF Tasks
  <2>2. CASE PageChanges
    BY <2>2, NothingChanges DEF PageChanges, toolVars
  <2>3. ASSUME NEW o \in Op, HostStarts(o) PROVE IInv'
    BY <2>3, NothingChanges DEF HostStarts, toolVars
  <2>4. ASSUME NEW t \in Tools, NEW given,
               \/ MissingArgument(t, given) \/ CallInteraction(t, given)
               \/ Refuse(t, given) \/ Send(t, given)
        PROVE  IInv'
    BY <2>4, NothingChanges, RefuseKeeps, SendKeeps
    DEF MissingArgument, CallInteraction
  <2>5. ASSUME NEW c \in Cookie, PageSetsCookie(c) PROVE IInv'
    BY <2>5, PageKeeps
  <2>6. CASE NetworkServiceDies
    BY <2>6, LostKeeps
  <2>7. CASE UNCHANGED allVars
    BY <2>7, NothingChanges DEF allVars, toolVars
  <2> QED BY <2>1, <2>2, <2>3, <2>4, <2>5, <2>6, <2>7 DEF ToolsNext
<1> QED BY <1>1, InitEstablishes, PTL DEF ToolsSpec

\* Whatever the cookie tools have told a client of a cookie is so, until a page
\* changes it, an answer says otherwise or a request about it is under way.
THEOREM ToldIsTrue == ToolsSpec => []AnswersAreTrue
<1>1. IInv => AnswersAreTrue
  BY DEF IInv, ClientIsRight, Carried, AnswersAreTrue, TrueOf, NoRequest
<1> QED BY <1>1, Inductive, PTL

-----------------------------------------------------------------------------
(* Buttons and keys.                                                       *)

\* What is down is down in a view that is there, for a chain whose next task
\* releases it; only a drag waits on a path with its button down.
DownWithTask ==
  /\ DOMAIN step = Op
  /\ held \subseteq Op
  /\ ~view => held = {}
  /\ \A o \in held : step[o] \in {"drag", "up", "charUp", "keyUp"}
  /\ \A o \in Op : step[o] = "drag" => Kind[o] = "drag"

\* A task of o that posts or finishes, when o has nothing down after it, or
\* goes on to a task that releases it.
LEMMA TaskKeepsDown ==
  ASSUME DownWithTask, NEW o \in Op, NEW s, UNCHANGED view,
         step' = [step EXCEPT ![o] = s],
         held' \subseteq held \cup {o},
         o \in held' => view /\ s \in {"drag", "up", "charUp", "keyUp"},
         s = "drag" => Kind[o] = "drag"
  PROVE  DownWithTask'
BY DEF DownWithTask

\* The pointer moves along its path.
LEMMA PathKeepsDown ==
  ASSUME DownWithTask, NEW o \in Op, NEW leg \in {"move", "drag"}, NEW n,
         AnimateMousePath(o, leg, n), UNCHANGED view,
         leg = "drag" => Kind[o] = "drag",
         o \in held => leg = "drag"
  PROVE  DownWithTask'
<1> USE DEF Post, Finish, inputVars
<1>1. CASE ~(n = 0 \/ ~view)
  BY <1>1, TaskKeepsDown DEF AnimateMousePath, DownWithTask
<1>2. CASE n = 0 \/ ~view
  <2>1. PathDone(o, leg)
    BY <1>2 DEF AnimateMousePath
  <2>2. CASE Kind[o] = "click" /\ ArrivedClick(o)
    BY <2>2, TaskKeepsDown DEF ArrivedClick, NoRenderView, DownWithTask
  <2>3. CASE Kind[o] = "hover" /\ ArrivedHover(o)
    BY <2>3, TaskKeepsDown DEF ArrivedHover, DownWithTask
  <2>4. CASE Kind[o] = "drag" /\ ArrivedAtSource(o)
    BY <2>4, TaskKeepsDown DEF ArrivedAtSource, NoRenderView, Press, DownWithTask
  <2>5. CASE Kind[o] = "drag" /\ ArrivedAtTarget(o)
    BY <2>5, TaskKeepsDown DEF ArrivedAtTarget, NoRenderView, Release, DownWithTask
  <2> QED BY <2>1, <2>2, <2>3, <2>4, <2>5 DEF PathDone
<1> QED BY <1>1, <1>2

\* An interaction begins.
LEMMA StartKeepsDown == ASSUME DownWithTask, NEW o \in Op, Start(o) PROVE DownWithTask'
<1> USE DEF Post, Finish, inputVars, pageVars, Called, Begins
<1>1. step[o] = "idle" /\ o \notin held /\ UNCHANGED view
  BY DEF Start, Refused, InvalidRef, DomInteraction, Locate, Type, SelectOption,
         PressKey, Scroll, DownWithTask
<1>2. CASE Refused(o)
  BY <1>1, <1>2, TaskKeepsDown DEF Refused
<1>3. CASE InvalidRef(o)
  BY <1>1, <1>3, TaskKeepsDown DEF InvalidRef
<1>4. CASE DomInteraction(o) \/ SelectOption(o)
  BY <1>1, <1>4, TaskKeepsDown DEF DomInteraction, SelectOption, Evaluate
<1>5. CASE Locate(o) \/ Type(o)
  BY <1>1, <1>5, TaskKeepsDown DEF Locate, Type
<1>6. CASE PressKey(o)
  BY <1>1, <1>6, TaskKeepsDown DEF PressKey, NoRenderView, Press
<1>7. CASE Scroll(o)
  BY <1>1, <1>7, TaskKeepsDown DEF Scroll, ScrollStep, NoRenderView
<1> QED BY <1>2, <1>3, <1>4, <1>5, <1>6, <1>7 DEF Start

\* A task or a page's answer continues an interaction.
LEMMA ContinueKeepsDown ==
  ASSUME DownWithTask, NEW o \in Op, Continue(o) PROVE DownWithTask'
<1> USE DEF Post, Finish, inputVars, pageVars, Runs
<1>1. CASE SnapshotArrives(o)
  <2>1. o \notin held /\ UNCHANGED view
    BY <1>1 DEF SnapshotArrives, DownWithTask
  <2>2. CASE Finish(o, "notFound") /\ UNCHANGED inputVars
    BY <2>1, <2>2, TaskKeepsDown
  <2>3. ASSUME NEW n \in PathLength, AnimateMousePath(o, "move", n) PROVE DownWithTask'
    BY <2>1, <2>3, PathKeepsDown
  <2> QED BY <1>1, <2>2, <2>3 DEF SnapshotArrives
<1>2. CASE MouseMoves(o)
  <2>1. PICK leg \in {"move", "drag"} : Runs(o, leg) /\ AnimateMousePath(o, leg, left[o])
    BY <1>2 DEF MouseMoves
  <2>2. /\ leg = "drag" => Kind[o] = "drag"
        /\ o \in held => leg = "drag"
    BY <2>1 DEF DownWithTask
  <2> QED BY <2>1, <2>2, PathKeepsDown
<1>3. CASE MouseDown(o)
  BY <1>3, TaskKeepsDown DEF MouseDown, NoRenderView, Press, DownWithTask
<1>4. CASE MouseUp(o) \/ KeyUp(o)
  BY <1>4, TaskKeepsDown DEF MouseUp, KeyUp, NoRenderView, Release, DownWithTask
<1>5. CASE TypeNextChar(o)
  BY <1>5, TaskKeepsDown DEF TypeNextChar, Evaluate, NoRenderView, Press, DownWithTask
<1>6. CASE CharUp(o)
  BY <1>6, TaskKeepsDown DEF CharUp, NoRenderView, DownWithTask
<1>7. CASE ScrollOn(o)
  BY <1>7, TaskKeepsDown DEF ScrollOn, ScrollStep, NoRenderView, DownWithTask
<1>8. CASE EvalStatusJS(o)
  BY <1>8, TaskKeepsDown DEF EvalStatusJS, DownWithTask
<1>9. CASE UseAfterFree(o)
  BY <1>9 DEF UseAfterFree, DownWithTask
<1> QED
  BY <1>1, <1>2, <1>3, <1>4, <1>5, <1>6, <1>7, <1>8, <1>9 DEF Continue

\* An interaction that is over has nothing down: the task that ends a chain
\* releases what the chain pressed, or the view it was pressed in is gone.
THEOREM NothingStaysDown == ToolsSpec => []NothingHeldAtTheEnd
<1>1. ToolsInit => DownWithTask
  BY DEF ToolsInit, Init, DownWithTask
<1>2. DownWithTask /\ [ToolsNext]_allVars => DownWithTask'
  <2> SUFFICES ASSUME DownWithTask, [ToolsNext]_allVars PROVE DownWithTask'
    OBVIOUS
  <2>1. ASSUME UNCHANGED vars PROVE DownWithTask'
    BY <2>1 DEF vars, pageVars, inputVars, DownWithTask
  <2>2. CASE Tasks
    BY <2>1, <2>2, ContinueKeepsDown
    DEF Tasks, Serve, Sent, ListCookies, GetCookie, SetCookie, DeleteCookie,
        ClearCookies, ReplyArrives, PageAnswers
  <2>3. CASE PageChanges
    BY <2>3 DEF PageChanges, ViewChanges, PageGone, DownWithTask
  <2>4. ASSUME NEW o \in Op, HostStarts(o) PROVE DownWithTask'
    BY <2>4, StartKeepsDown DEF HostStarts
  <2>5. ASSUME NEW t \in Tools, NEW given,
               \/ MissingArgument(t, given) \/ CallInteraction(t, given)
               \/ Refuse(t, given) \/ Send(t, given)
        PROVE  DownWithTask'
    BY <2>1, <2>5, StartKeepsDown DEF MissingArgument, CallInteraction, Refuse, Send
  <2>6. CASE NetworkServiceDies \/ \E c \in Cookie : PageSetsCookie(c)
    BY <2>1, <2>6 DEF NetworkServiceDies, PageSetsCookie
  <2>7. CASE UNCHANGED allVars
    BY <2>1, <2>7 DEF allVars
  <2> QED BY <2>2, <2>3, <2>4, <2>5, <2>6, <2>7 DEF ToolsNext
<1>3. DownWithTask => NothingHeldAtTheEnd
  BY DEF DownWithTask, NothingHeldAtTheEnd
<1> QED BY <1>1, <1>2, <1>3, PTL DEF ToolsSpec

-----------------------------------------------------------------------------
(* What has been carried out of an interaction.                            *)

Steps == {"idle", "snapshot", "move", "drag", "down", "up", "type", "charUp",
          "keyUp", "scroll", "eval", "done"}

\* A press or a release, or a character.
Event == {"down", "up"} \cup STRING

\* The types, and an operation has one status exactly when its chain is over.
ChainTypes ==
  /\ step \in [Op -> Steps]
  /\ left \in [Op -> Int]
  /\ sent \in [Op -> Seq(Event)]
  /\ scrolled \in [Op -> [x : Int, y : Int]]
  /\ answer \in [Op -> Seq(Statuses)]
  /\ \A o \in Op : Len(answer[o]) = IF step[o] = "done" THEN 1 ELSE 0

\* The events of an interaction, moves left out.
Whole(o) ==
  IF Kind[o] = "type" THEN Text[o]
  ELSE IF Kind[o] \in {"click", "drag", "press"} THEN <<"down", "up">>
  ELSE <<>>

\* How far along an axis, k pixels of a scroll by v take the page.
Toward(v, k) == IF v = 0 THEN 0 ELSE IF v > 0 THEN k ELSE -k

Distance(o) == Larger(Abs(Delta[o].x), Abs(Delta[o].y))

\* The kinds of interaction that have a task s.
HasTask(o, s) ==
  /\ s \in {"snapshot", "move"} => Kind[o] \in {"click", "hover", "drag"}
  /\ s = "drag" => Kind[o] = "drag"
  /\ s \in {"down", "up"} => Kind[o] = "click"
  /\ s \in {"type", "charUp"} => Kind[o] = "type" /\ Ref[o] # "dom"
  /\ s = "keyUp" => Kind[o] = "press"
  /\ s = "scroll" => Kind[o] = "scroll"
  /\ s = "eval" => Kind[o] \notin {"press", "scroll"}
                   /\ (Ref[o] = "dom" \/ Kind[o] \in {"type", "select"})

\* How many events the chain has forwarded when s is its next task and n is
\* what remains.
Count(o, s, n, k) ==
  /\ s \in {"idle", "snapshot", "move", "down", "scroll"} => k = 0
  /\ s \in {"drag", "up", "keyUp"} => k = 1
  /\ s = "type" => n >= 0 /\ k = Len(Text[o]) - n
  /\ s = "charUp" => n >= 1 /\ k = Len(Text[o]) - n + 1
  /\ s = "eval" => k = IF Ref[o] = "dom" THEN 0 ELSE Len(Whole(o))

\* They are the first ones, in order.
Begun(o, m) ==
  /\ Len(m) <= Len(Whole(o))
  /\ \A i \in 1 .. Len(m) : m[i] = Whole(o)[i]

\* How far a scroll along one axis has gone.
Scrolled(o, s, n, d) ==
  Kind[o] = "scroll" /\ (Delta[o].x = 0 \/ Delta[o].y = 0) =>
    /\ s = "idle" => d = [x |-> 0, y |-> 0]
    /\ s = "scroll" => /\ 0 <= n
                       /\ d = [x |-> Toward(Delta[o].x, Distance(o) - n),
                               y |-> Toward(Delta[o].y, Distance(o) - n)]

\* "ok" is the answer of one that has forwarded, or scrolled, all of it.
OkIsWhole(o, m, d, a) ==
  a = <<"ok">> =>
    /\ Ref[o] # "dom" \/ Kind[o] = "press" => Len(m) = Len(Whole(o))
    /\ Kind[o] = "scroll" /\ (Delta[o].x = 0 \/ Delta[o].y = 0) => d = Delta[o]

Chain(o, s, n, m, d, a) ==
  /\ HasTask(o, s)
  /\ Count(o, s, n, Len(m))
  /\ Begun(o, m)
  /\ Scrolled(o, s, n, d)
  /\ OkIsWhole(o, m, d, a)

Chains ==
  /\ ChainTypes
  /\ \A o \in Op : Chain(o, step[o], left[o], sent[o], scrolled[o], answer[o])

\* What an interaction was asked to do, and with what.
LEMMA KindsAndRefs ==
  ASSUME NEW o \in Op
  PROVE  /\ Kind[o] \in Kinds /\ Ref[o] \in Refs
         /\ Text[o] \in Seq(STRING) /\ Len(Text[o]) \in Nat
         /\ Whole(o) \in Seq(Event) /\ Len(Whole(o)) \in Nat
         /\ Delta[o] \in [x : Int, y : Int] /\ Distance(o) \in Nat
<1>1. /\ Kind[o] \in Kinds /\ Ref[o] \in Refs /\ Text[o] \in Seq(STRING)
      /\ Delta[o] \in [x : Int, y : Int]
  BY InteractionAssumption
<1>2. Len(Text[o]) \in Nat
  BY <1>1
<1>3. Whole(o) \in Seq(Event)
  <2>1. <<"down", "up">> \in Seq(Event) /\ <<>> \in Seq(Event)
    BY DEF Event
  <2>2. Text[o] \in Seq(Event)
    BY <1>1, SeqMonotonic DEF Event
  <2> QED
    BY <2>1, <2>2, Zenon DEF Whole
<1>4. Distance(o) \in Nat
  BY <1>1 DEF Distance, Larger, Abs
<1> QED
  BY <1>1, <1>2, <1>3, <1>4

\* A step of o's chain, by what it leaves of o.
LEMMA ChainMoves ==
  ASSUME Chains, NEW o \in Op, NEW s \in Steps, NEW n \in Int,
         NEW m \in Seq(Event), NEW d \in [x : Int, y : Int], NEW a \in Seq(Statuses),
         step' = [step EXCEPT ![o] = s], left' = [left EXCEPT ![o] = n],
         sent' = [sent EXCEPT ![o] = m], scrolled' = [scrolled EXCEPT ![o] = d],
         answer' = [answer EXCEPT ![o] = a],
         Len(a) = IF s = "done" THEN 1 ELSE 0,
         Chain(o, s, n, m, d, a)
  PROVE  Chains'
<1> USE DEF Steps
<1>1. ChainTypes
  BY DEF Chains
<1>2. /\ step'[o] = s /\ left'[o] = n /\ sent'[o] = m /\ scrolled'[o] = d
      /\ answer'[o] = a
  BY <1>1 DEF ChainTypes
<1>3. \A q \in Op \ {o} :
        /\ step'[q] = step[q] /\ left'[q] = left[q] /\ sent'[q] = sent[q]
        /\ scrolled'[q] = scrolled[q] /\ answer'[q] = answer[q]
  BY <1>1 DEF ChainTypes
<1>4. ChainTypes'
  <2>1. /\ step' \in [Op -> Steps] /\ left' \in [Op -> Int]
        /\ sent' \in [Op -> Seq(Event)]
    BY <1>1 DEF ChainTypes
  <2>2. /\ scrolled' \in [Op -> [x : Int, y : Int]]
        /\ answer' \in [Op -> Seq(Statuses)]
    BY <1>1 DEF ChainTypes
  <2>3. \A q \in Op : Len(answer'[q]) = IF step'[q] = "done" THEN 1 ELSE 0
    BY <1>1, <1>2, <1>3 DEF ChainTypes
  <2> QED
    BY <1>1, <2>1, <2>2, <2>3 DEF ChainTypes
<1>5. ASSUME NEW q \in Op
      PROVE  Chain(q, step'[q], left'[q], sent'[q], scrolled'[q], answer'[q])
  <2>1. CASE q = o
    BY <1>2, <2>1
  <2>2. CASE q # o
    <3>1. Chain(q, step[q], left[q], sent[q], scrolled[q], answer[q])
      BY DEF Chains
    <3> QED
      BY <1>3, <2>2, <3>1
  <2> QED
    BY <2>1, <2>2
<1> QED
  BY <1>4, <1>5 DEF Chains, Chain, HasTask, Count, Begun, Scrolled, OkIsWhole

\* A step of something else.
LEMMA SameChains ==
  ASSUME Chains, UNCHANGED <<step, left, sent, scrolled, answer>>
  PROVE  Chains'
<1>1. ChainTypes'
  BY DEF Chains, ChainTypes
<1>2. ASSUME NEW q \in Op
      PROVE  Chain(q, step'[q], left'[q], sent'[q], scrolled'[q], answer'[q])
  BY DEF Chains
<1> QED
  BY <1>1, <1>2 DEF Chains, Chain, HasTask, Count, Begun, Scrolled, OkIsWhole

\* A task that posts the next one.
LEMMA PostKeeps ==
  ASSUME Chains, NEW o \in Op, NEW s \in Steps \ {"done"}, NEW n \in Int,
         NEW m \in Seq(Event), NEW d \in [x : Int, y : Int],
         Post(o, s, n), step[o] # "done",
         sent' = [sent EXCEPT ![o] = m], scrolled' = [scrolled EXCEPT ![o] = d],
         HasTask(o, s), Count(o, s, n, Len(m)), Begun(o, m), Scrolled(o, s, n, d)
  PROVE  Chains'
<1> DEFINE a == answer[o]
<1>1. a \in Seq(Statuses) /\ Len(a) = 0 /\ answer = [answer EXCEPT ![o] = a]
  BY DEF Chains, ChainTypes
<1>2. OkIsWhole(o, m, d, a)
  <2>1. a = <<>>
    BY <1>1
  <2>2. a # <<"ok">>
    BY <2>1
  <2> QED
    BY <2>2 DEF OkIsWhole
<1>3. /\ step' = [step EXCEPT ![o] = s] /\ left' = [left EXCEPT ![o] = n]
      /\ answer' = [answer EXCEPT ![o] = a]
  BY <1>1 DEF Post
<1> HIDE DEF a
<1>4. Chain(o, s, n, m, d, a)
  BY <1>2 DEF Chain
<1> QED
  BY <1>1, <1>3, <1>4, ChainMoves

\* A task that answers.
LEMMA FinishKeeps ==
  ASSUME Chains, NEW o \in Op, NEW st \in Statuses,
         NEW m \in Seq(Event), NEW d \in [x : Int, y : Int],
         Finish(o, st), step[o] # "done",
         sent' = [sent EXCEPT ![o] = m], scrolled' = [scrolled EXCEPT ![o] = d],
         Begun(o, m), st = "ok" => OkIsWhole(o, m, d, <<"ok">>)
  PROVE  Chains'
<1> DEFINE n == left[o]
           b == answer[o]
           a == Append(b, st)
<1>1. b \in Seq(Statuses) /\ Len(b) = 0
  BY DEF Chains, ChainTypes
<1>2. b = <<>>
  BY <1>1
<1>3. a = <<st>> /\ a \in Seq(Statuses) /\ Len(a) = 1
  BY <1>2
<1>4. OkIsWhole(o, m, d, a)
  <2>1. a = <<"ok">> => st = "ok"
    BY <1>3
  <2> QED
    BY <1>3, <2>1 DEF OkIsWhole
<1>5. n \in Int /\ left = [left EXCEPT ![o] = n]
  BY DEF Chains, ChainTypes
<1>6. /\ step' = [step EXCEPT ![o] = "done"] /\ left' = [left EXCEPT ![o] = n]
      /\ answer' = [answer EXCEPT ![o] = a]
  BY <1>5 DEF Finish, Chains, ChainTypes
<1> HIDE DEF a, b, n
<1>7. Chain(o, "done", n, m, d, a)
  BY <1>4 DEF Chain, HasTask, Count, Scrolled
<1>8. "done" \in Steps
  BY DEF Steps
<1> QED
  BY <1>3, <1>5, <1>6, <1>7, <1>8, ChainMoves

\* A task that forwards nothing.
LEMMA PostOnly ==
  ASSUME Chains, NEW o \in Op, NEW s \in Steps \ {"done"}, NEW n \in Int,
         Post(o, s, n), step[o] # "done",
         UNCHANGED inputVars,
         HasTask(o, s), Count(o, s, n, Len(sent[o])), Scrolled(o, s, n, scrolled[o])
  PROVE  Chains'
<1> DEFINE m == sent[o]
           d == scrolled[o]
<1>1. /\ m \in Seq(Event) /\ d \in [x : Int, y : Int]
      /\ sent' = [sent EXCEPT ![o] = m] /\ scrolled' = [scrolled EXCEPT ![o] = d]
  BY DEF Chains, ChainTypes, inputVars
<1>2. Begun(o, m)
  BY DEF Chains, Chain
<1> HIDE DEF m, d
<1>3. Count(o, s, n, Len(m)) /\ Scrolled(o, s, n, d)
  BY DEF m, d
<1> QED
  BY <1>1, <1>2, <1>3, PostKeeps

\* The same, of one that answers.
LEMMA FinishOnly ==
  ASSUME Chains, NEW o \in Op, NEW st \in Statuses,
         Finish(o, st), step[o] # "done",
         UNCHANGED inputVars,
         st = "ok" => OkIsWhole(o, sent[o], scrolled[o], <<"ok">>)
  PROVE  Chains'
<1> DEFINE m == sent[o]
           d == scrolled[o]
<1>1. /\ m \in Seq(Event) /\ d \in [x : Int, y : Int]
      /\ sent' = [sent EXCEPT ![o] = m] /\ scrolled' = [scrolled EXCEPT ![o] = d]
  BY DEF Chains, ChainTypes, inputVars
<1>2. Begun(o, m)
  BY DEF Chains, Chain
<1> HIDE DEF m, d
<1>3. st = "ok" => OkIsWhole(o, m, d, <<"ok">>)
  BY DEF m, d
<1> QED
  BY <1>1, <1>2, <1>3, FinishKeeps

\* The next event of an interaction that has more of them.
LEMMA NextEvent ==
  ASSUME Chains, NEW o \in Op, Len(sent[o]) < Len(Whole(o)), NEW event,
         event = Whole(o)[Len(sent[o]) + 1]
  PROVE  /\ Append(sent[o], event) \in Seq(Event)
         /\ Len(Append(sent[o], event)) = Len(sent[o]) + 1
         /\ Begun(o, Append(sent[o], event))
<1> DEFINE m == sent[o]
           w == Whole(o)
<1>1. m \in Seq(Event) /\ w \in Seq(Event) /\ Len(m) \in Nat /\ Len(w) \in Nat
  BY KindsAndRefs DEF Chains, ChainTypes
<1>2. Begun(o, m)
  BY DEF Chains, Chain
<1> HIDE DEF m, w
<1>3. event \in Event /\ event = w[Len(m) + 1] /\ Len(m) < Len(w)
  <2>1. event = w[Len(m) + 1] /\ Len(m) < Len(w)
    BY DEF m, w
  <2>2. Len(m) + 1 \in 1 .. Len(w)
    BY <1>1, <2>1
  <2> QED
    BY <1>1, <2>1, <2>2, ElementOfSeq
<1>4. /\ Append(m, event) \in Seq(Event) /\ Len(Append(m, event)) = Len(m) + 1
      /\ \A i \in 1 .. Len(m) : Append(m, event)[i] = m[i]
      /\ Append(m, event)[Len(m) + 1] = event
  BY <1>1, <1>3, AppendProperties
<1>5. Begun(o, Append(m, event))
  <2> DEFINE t == Append(m, event)
  <2>1. \A i \in 1 .. Len(m) : m[i] = w[i]
    BY <1>2 DEF Begun, w
  <2>2. \A i \in 1 .. Len(m) + 1 : i \in 1 .. Len(m) \/ i = Len(m) + 1
    BY <1>1
  <2>3. \A i \in 1 .. Len(t) : t[i] = w[i]
    BY <1>3, <1>4, <2>1, <2>2
  <2>4. Len(t) <= Len(w)
    BY <1>1, <1>3, <1>4
  <2> QED
    BY <2>3, <2>4 DEF Begun, w
<1> QED
  BY <1>4, <1>5 DEF m

\* A task that presses or releases a button or a key and posts the next one.
LEMMA ForwardAndPost ==
  ASSUME Chains, NEW o \in Op, NEW s \in Steps \ {"done"}, NEW n \in Int, NEW event,
         Press(o, event) \/ Release(o, event), Post(o, s, n), step[o] # "done",
         Len(sent[o]) < Len(Whole(o)), event = Whole(o)[Len(sent[o]) + 1],
         HasTask(o, s), Count(o, s, n, Len(sent[o]) + 1), Kind[o] # "scroll"
  PROVE  Chains'
<1> DEFINE m == Append(sent[o], event)
           d == scrolled[o]
<1>1. /\ m \in Seq(Event) /\ Len(m) = Len(sent[o]) + 1 /\ Begun(o, m)
  BY NextEvent
<1>2. /\ d \in [x : Int, y : Int]
      /\ sent' = [sent EXCEPT ![o] = m] /\ scrolled' = [scrolled EXCEPT ![o] = d]
  BY DEF Chains, ChainTypes, Press, Release
<1> HIDE DEF m, d
<1>3. Count(o, s, n, Len(m)) /\ Scrolled(o, s, n, d)
  BY <1>1 DEF Scrolled
<1> QED
  BY <1>1, <1>2, <1>3, PostKeeps

\* A task that releases the button or the key, and ends well.
LEMMA ForwardAndFinish ==
  ASSUME Chains, NEW o \in Op, NEW event,
         Release(o, event), Finish(o, "ok"), step[o] # "done",
         Len(sent[o]) + 1 = Len(Whole(o)), event = Whole(o)[Len(sent[o]) + 1],
         Kind[o] # "scroll"
  PROVE  Chains'
<1> DEFINE m == Append(sent[o], event)
           d == scrolled[o]
<1>0. Len(sent[o]) \in Nat
  BY DEF Chains, ChainTypes
<1>1. /\ m \in Seq(Event) /\ Len(m) = Len(sent[o]) + 1 /\ Begun(o, m)
  BY <1>0, NextEvent
<1>2. /\ d \in [x : Int, y : Int]
      /\ sent' = [sent EXCEPT ![o] = m] /\ scrolled' = [scrolled EXCEPT ![o] = d]
  BY DEF Chains, ChainTypes, Release
<1> HIDE DEF m, d
<1>3. OkIsWhole(o, m, d, <<"ok">>)
  BY <1>1 DEF OkIsWhole
<1>4. "ok" \in Statuses
  BY DEF Statuses
<1> QED
  BY <1>1, <1>2, <1>3, <1>4, FinishKeeps

\* A script does what is left, or all of it.
LEMMA EvaluateKeeps ==
  ASSUME Chains, NEW o \in Op, Evaluate(o), step[o] # "done",
         HasTask(o, "eval"), Len(sent[o]) = IF Ref[o] = "dom" THEN 0 ELSE Len(Whole(o))
  PROVE  Chains'
<1> USE DEF Steps, Statuses
<1>1. Count(o, "eval", 0, Len(sent[o])) /\ Scrolled(o, "eval", 0, scrolled[o])
  BY DEF Count, Scrolled
<1>2. CASE Post(o, "eval", 0)
  BY <1>1, <1>2, PostOnly DEF Evaluate
<1>3. CASE Finish(o, "noActiveFrame")
  BY <1>3, FinishOnly DEF Evaluate
<1> QED
  BY <1>2, <1>3 DEF Evaluate

\* A task that answers with an error.
LEMMA FailureKeeps ==
  ASSUME Chains, NEW o \in Op, NEW st \in Statuses \ {"ok"}, Finish(o, st),
         UNCHANGED inputVars, step[o] # "done"
  PROVE  Chains'
BY FinishOnly

\* There is no view to forward to.
LEMMA NoViewKeeps ==
  ASSUME Chains, NEW o \in Op, NoRenderView(o), step[o] # "done"
  PROVE  Chains'
BY FailureKeeps DEF NoRenderView, Statuses

\* A chunk takes the page towards where the scroll ends, and not beyond.
LEMMA ScrollStepKeeps ==
  ASSUME Chains, NEW o \in Op, NEW n \in Int, ScrollStep(o, n),
         Kind[o] = "scroll", step[o] \in {"idle", "scroll"},
         Scrolled(o, "scroll", n, scrolled[o])
  PROVE  Chains'
<1> DEFINE D == Distance(o)
           v == Delta[o]
           d == scrolled[o]
           oneAxis == v.x = 0 \/ v.y = 0
<1>1. D \in Nat /\ v \in [x : Int, y : Int] /\ d \in [x : Int, y : Int]
  BY KindsAndRefs DEF Chains, ChainTypes
<1>2. D = Larger(Abs(v.x), Abs(v.y))
  BY DEF Distance
<1>3. oneAxis => 0 <= n /\ d = [x |-> Toward(v.x, D - n), y |-> Toward(v.y, D - n)]
  BY DEF Scrolled
<1>4. Len(sent[o]) = 0 /\ Len(Whole(o)) = 0 /\ Begun(o, sent[o])
  BY DEF Chains, Chain, Count, Whole
<1>5. CASE n <= 0
  <2>1. Finish(o, "ok") /\ UNCHANGED inputVars
    BY <1>5 DEF ScrollStep
  <2>2. ASSUME oneAxis PROVE d = v
    <3>1. n = 0
      BY <1>3, <1>5, <2>2
    <3>2. Toward(v.x, D) = v.x /\ Toward(v.y, D) = v.y
      BY <1>1, <1>2, <2>2 DEF Toward, Larger, Abs
    <3> QED
      BY <1>1, <1>3, <2>2, <3>1, <3>2
  <2>3. OkIsWhole(o, sent[o], d, <<"ok">>)
    BY <1>4, <2>2 DEF OkIsWhole
  <2> QED
    BY <2>1, <2>3, FinishOnly DEF Statuses
<1>6. CASE ~(n <= 0) /\ ~view
  BY <1>6, NoViewKeeps DEF ScrollStep
<1>7. CASE ~(n <= 0) /\ view
  <2>1. PICK c \in {Smaller(n, e) : e \in Chunk} :
          /\ scrolled' = [scrolled EXCEPT ![o] =
               [x |-> @.x + Sign(v.x) * c, y |-> @.y + Sign(v.y) * c]]
          /\ Post(o, "scroll", n - c)
          /\ UNCHANGED <<sent, held>>
    BY <1>7 DEF ScrollStep
  <2>2. c \in Int /\ c <= n
    BY <1>7, <2>1, InteractionAssumption DEF Smaller
  <2> DEFINE f == [x |-> d.x + Sign(v.x) * c, y |-> d.y + Sign(v.y) * c]
  <2>3. \A z \in Int : Sign(z) * c = Toward(z, c)
    BY <2>2 DEF Sign, Toward
  <2>4. f = [x |-> d.x + Toward(v.x, c), y |-> d.y + Toward(v.y, c)]
    BY <1>1, <2>3
  <2>5. f \in [x : Int, y : Int]
    BY <1>1, <2>2, <2>4 DEF Toward
  <2>6. Scrolled(o, "scroll", n - c, f)
    <3> SUFFICES ASSUME oneAxis
                 PROVE  /\ 0 <= n - c
                        /\ f = [x |-> Toward(v.x, D - (n - c)), y |-> Toward(v.y, D - (n - c))]
      BY DEF Scrolled
    <3>1. \A z \in Int : Toward(z, D - n) + Toward(z, c) = Toward(z, D - (n - c))
      BY <1>1, <2>2 DEF Toward
    <3>2. d.x = Toward(v.x, D - n) /\ d.y = Toward(v.y, D - n)
      BY <1>3
    <3> QED
      BY <1>1, <2>2, <2>4, <3>1, <3>2
  <2>7. HasTask(o, "scroll") /\ Count(o, "scroll", n - c, Len(sent[o]))
    BY <1>4 DEF HasTask, Count
  <2>8. /\ sent' = [sent EXCEPT ![o] = sent[o]]
        /\ scrolled' = [scrolled EXCEPT ![o] = f]
        /\ sent[o] \in Seq(Event)
    BY <2>1 DEF Chains, ChainTypes
  <2>9. n - c \in Int /\ "scroll" \in Steps \ {"done"} /\ step[o] # "done"
    BY <2>2 DEF Steps
  <2> HIDE DEF f
  <2> QED
    BY <1>4, <2>1, <2>5, <2>6, <2>7, <2>8, <2>9, PostKeeps
<1> QED
  BY <1>5, <1>6, <1>7

\* The first task of an interaction.
LEMMA StartKeepsChains == ASSUME Chains, NEW o \in Op, Start(o) PROVE Chains'
<1> USE DEF Called, Begins
<1>1. step[o] = "idle"
  BY DEF Start, Refused, InvalidRef, DomInteraction, Locate, Type, SelectOption,
         PressKey, Scroll
<1>2. /\ Len(sent[o]) = 0
      /\ Kind[o] = "scroll" /\ (Delta[o].x = 0 \/ Delta[o].y = 0)
           => scrolled[o] = [x |-> 0, y |-> 0]
  BY <1>1 DEF Chains, Chain, Count, Scrolled
<1>3. Kind[o] \in Kinds /\ Ref[o] \in Refs /\ Len(Text[o]) \in Nat
  BY KindsAndRefs
<1>4. CASE Refused(o)
  BY <1>1, <1>4, FailureKeeps DEF Refused, Statuses
<1>5. CASE InvalidRef(o)
  BY <1>1, <1>5, FailureKeeps DEF InvalidRef, Statuses
<1>6. CASE DomInteraction(o)
  <2>1. HasTask(o, "eval")
    BY <1>6 DEF DomInteraction, HasTask
  <2> QED
    BY <1>1, <1>2, <1>6, <2>1, EvaluateKeeps DEF DomInteraction
<1>7. CASE SelectOption(o)
  <2>1. HasTask(o, "eval") /\ Ref[o] # "dom"
    BY <1>7 DEF SelectOption, HasTask
  <2>2. Len(Whole(o)) = 0
    BY <1>7 DEF SelectOption, Whole
  <2> QED
    BY <1>1, <1>2, <1>7, <2>1, <2>2, EvaluateKeeps DEF SelectOption
<1>8. CASE Locate(o)
  <2>1. /\ HasTask(o, "snapshot") /\ Count(o, "snapshot", 0, Len(sent[o]))
        /\ Scrolled(o, "snapshot", 0, scrolled[o])
    BY <1>2, <1>8 DEF Locate, HasTask, Count, Scrolled
  <2> QED
    BY <1>1, <1>8, <2>1, PostOnly DEF Locate, Steps
<1>9. CASE Type(o)
  <2>1. /\ HasTask(o, "type") /\ Count(o, "type", Len(Text[o]), Len(sent[o]))
        /\ Scrolled(o, "type", Len(Text[o]), scrolled[o])
    BY <1>2, <1>3, <1>9 DEF Type, HasTask, Count, Scrolled
  <2> QED
    BY <1>1, <1>3, <1>9, <2>1, PostOnly DEF Type, Steps
<1>10. CASE PressKey(o)
  <2>1. CASE ~view
    BY <1>1, <1>10, <2>1, NoViewKeeps DEF PressKey
  <2>2. CASE view
    <3>1. Whole(o) = <<"down", "up">>
      BY <1>10 DEF PressKey, Whole
    <3>2. Len(Whole(o)) = 2 /\ Whole(o)[1] = "down"
      BY <3>1
    <3>3. HasTask(o, "keyUp") /\ Count(o, "keyUp", 0, Len(sent[o]) + 1)
      BY <1>2, <1>10 DEF PressKey, HasTask, Count
    <3>4. Press(o, "down") /\ Post(o, "keyUp", 0) /\ Kind[o] = "press"
      BY <1>10, <2>2 DEF PressKey
    <3>5. /\ Len(sent[o]) < Len(Whole(o)) /\ "down" = Whole(o)[Len(sent[o]) + 1]
          /\ step[o] # "done" /\ Kind[o] # "scroll"
          /\ "keyUp" \in Steps \ {"done"} /\ 0 \in Int
      BY <1>1, <1>2, <3>2, <3>4 DEF Steps
    <3> QED
      BY <3>3, <3>4, <3>5, ForwardAndPost
  <2> QED
    BY <2>1, <2>2
<1>11. CASE Scroll(o)
  <2>1. Distance(o) \in Nat /\ Delta[o] \in [x : Int, y : Int]
    BY KindsAndRefs
  <2>2. Scrolled(o, "scroll", Distance(o), scrolled[o])
    BY <1>2, <2>1 DEF Scrolled, Toward
  <2> QED
    BY <1>1, <1>11, <2>1, <2>2, ScrollStepKeeps DEF Scroll, Distance
<1> QED
  BY <1>4, <1>5, <1>6, <1>7, <1>8, <1>9, <1>10, <1>11 DEF Start

\* The mouse has arrived, or its view has gone.
LEMMA ArrivalKeeps ==
  ASSUME Chains, NEW o \in Op, NEW leg \in {"move", "drag"}, PathDone(o, leg),
         step[o] # "done", Kind[o] \in {"click", "hover", "drag"},
         leg = "drag" => Kind[o] = "drag",
         Len(sent[o]) = IF leg = "drag" THEN 1 ELSE 0
  PROVE  Chains'
<1> USE DEF Steps, Statuses
<1>1. Kind[o] # "scroll" /\ Scrolled(o, "down", 0, scrolled[o])
  BY DEF Scrolled
<1>2. CASE Kind[o] = "click" /\ ArrivedClick(o)
  <2>1. CASE ~view
    BY <1>2, <2>1, NoViewKeeps DEF ArrivedClick
  <2>2. CASE view
    <3>1. leg = "move"
      BY <1>2
    <3>2. HasTask(o, "down") /\ Count(o, "down", 0, Len(sent[o]))
      BY <1>2, <3>1 DEF HasTask, Count
    <3> QED
      BY <1>1, <1>2, <2>2, <3>2, PostOnly DEF ArrivedClick
  <2> QED
    BY <2>1, <2>2
<1>3. CASE Kind[o] = "hover" /\ ArrivedHover(o)
  <2>1. Whole(o) = <<>>
    BY <1>3 DEF Whole
  <2>2. Begun(o, sent[o]) /\ Len(sent[o]) \in Nat
    BY DEF Chains, Chain, ChainTypes
  <2>3. OkIsWhole(o, sent[o], scrolled[o], <<"ok">>)
    BY <1>1, <2>1, <2>2 DEF Begun, OkIsWhole
  <2> QED
    BY <1>3, <2>3, FinishOnly DEF ArrivedHover
<1>4. CASE Kind[o] = "drag" /\ leg = "move" /\ ArrivedAtSource(o)
  <2>1. CASE ~view
    BY <1>4, <2>1, NoViewKeeps DEF ArrivedAtSource
  <2>2. CASE view
    <3>1. Press(o, "down") /\ \E n \in PathLength : Post(o, "drag", n)
      BY <1>4, <2>2 DEF ArrivedAtSource
    <3>2. PICK n \in PathLength : Post(o, "drag", n)
      BY <3>1
    <3>3. n \in Int
      BY InteractionAssumption
    <3>4. Whole(o) = <<"down", "up">>
      BY <1>4 DEF Whole
    <3>5. Len(sent[o]) < Len(Whole(o)) /\ "down" = Whole(o)[Len(sent[o]) + 1]
      BY <1>4, <3>4
    <3>6. HasTask(o, "drag") /\ Count(o, "drag", n, Len(sent[o]) + 1)
      BY <1>4 DEF HasTask, Count
    <3>7. "drag" \in Steps \ {"done"}
      OBVIOUS
    <3> QED
      BY <1>1, <3>1, <3>2, <3>3, <3>5, <3>6, <3>7, ForwardAndPost
  <2> QED
    BY <2>1, <2>2
<1>5. CASE Kind[o] = "drag" /\ leg = "drag" /\ ArrivedAtTarget(o)
  <2>1. CASE ~view
    BY <1>5, <2>1, NoViewKeeps DEF ArrivedAtTarget
  <2>2. CASE view
    <3>1. Whole(o) = <<"down", "up">>
      BY <1>5 DEF Whole
    <3>2. Len(sent[o]) + 1 = Len(Whole(o)) /\ "up" = Whole(o)[Len(sent[o]) + 1]
      BY <1>5, <3>1
    <3> QED
      BY <1>1, <1>5, <2>2, <3>2, ForwardAndFinish DEF ArrivedAtTarget
  <2> QED
    BY <2>1, <2>2
<1> QED
  BY <1>2, <1>3, <1>4, <1>5 DEF PathDone

\* A point of a mouse path, or its end.
LEMMA PathKeepsChains ==
  ASSUME Chains, NEW o \in Op, NEW leg \in {"move", "drag"}, NEW n \in Int,
         AnimateMousePath(o, leg, n), step[o] # "done",
         Kind[o] \in {"click", "hover", "drag"}, leg = "drag" => Kind[o] = "drag",
         Len(sent[o]) = IF leg = "drag" THEN 1 ELSE 0
  PROVE  Chains'
<1>1. CASE n = 0 \/ ~view
  BY <1>1, ArrivalKeeps DEF AnimateMousePath
<1>2. CASE ~(n = 0 \/ ~view)
  <2>1. Post(o, leg, n - 1) /\ UNCHANGED inputVars
    BY <1>2 DEF AnimateMousePath
  <2>2. HasTask(o, leg) /\ Count(o, leg, n - 1, Len(sent[o]))
    BY DEF HasTask, Count
  <2>3. Scrolled(o, leg, n - 1, scrolled[o])
    BY DEF Scrolled
  <2>4. leg \in Steps \ {"done"} /\ n - 1 \in Int
    BY DEF Steps
  <2> QED
    BY <2>1, <2>2, <2>3, <2>4, PostOnly
<1> QED
  BY <1>1, <1>2

\* A character goes down, or the last one has been typed.
LEMMA TypingKeeps ==
  ASSUME Chains, NEW o \in Op, TypeNextChar(o) \/ CharUp(o)
  PROVE  Chains'
<1> USE DEF Runs
<1>1. Kind[o] = "type" /\ Ref[o] # "dom" /\ Whole(o) = Text[o]
  BY DEF TypeNextChar, CharUp, Chains, Chain, HasTask, Whole
<1>2. /\ Len(Text[o]) \in Nat /\ left[o] \in Int /\ sent[o] \in Seq(Event)
      /\ Len(sent[o]) \in Nat
  BY KindsAndRefs DEF Chains, ChainTypes
<1>3. CASE TypeNextChar(o)
  <2>1. step[o] = "type" /\ left[o] >= 0 /\ Len(sent[o]) = Len(Text[o]) - left[o]
    BY <1>3 DEF TypeNextChar, Chains, Chain, Count
  <2>2. CASE left[o] = 0
    <3>1. HasTask(o, "eval") /\ Len(sent[o]) = Len(Whole(o))
      BY <1>1, <1>2, <2>1, <2>2 DEF HasTask
    <3> QED
      BY <1>1, <1>3, <2>1, <2>2, <3>1, EvaluateKeeps DEF TypeNextChar
  <2>3. CASE left[o] # 0 /\ ~view
    BY <1>3, <2>1, <2>3, NoViewKeeps DEF TypeNextChar
  <2>4. CASE left[o] # 0 /\ view
    <3> DEFINE event == Text[o][Len(Text[o]) - left[o] + 1]
    <3>1. Press(o, event) /\ Post(o, "charUp", left[o])
      BY <1>3, <2>4 DEF TypeNextChar
    <3>2. Len(sent[o]) < Len(Whole(o)) /\ event = Whole(o)[Len(sent[o]) + 1]
      BY <1>1, <1>2, <2>1, <2>4
    <3>3. HasTask(o, "charUp") /\ Count(o, "charUp", left[o], Len(sent[o]) + 1)
      BY <1>1, <1>2, <2>1, <2>4 DEF HasTask, Count
    <3>4. "charUp" \in Steps \ {"done"} /\ Kind[o] # "scroll" /\ step[o] # "done"
      BY <1>1, <2>1 DEF Steps
    <3> HIDE DEF event
    <3> QED
      BY <1>2, <3>1, <3>2, <3>3, <3>4, ForwardAndPost
  <2> QED
    BY <2>2, <2>3, <2>4
<1>4. CASE CharUp(o)
  <2>1. step[o] = "charUp" /\ left[o] >= 1 /\ Len(sent[o]) = Len(Text[o]) - left[o] + 1
    BY <1>4 DEF CharUp, Chains, Chain, Count
  <2>2. CASE ~view
    BY <1>4, <2>1, <2>2, NoViewKeeps DEF CharUp
  <2>3. CASE view
    <3> DEFINE m == sent[o]
               d == scrolled[o]
    <3>1. Post(o, "type", left[o] - 1) /\ UNCHANGED <<sent, scrolled>>
      BY <1>4, <2>3 DEF CharUp
    <3>2. /\ sent' = [sent EXCEPT ![o] = m] /\ scrolled' = [scrolled EXCEPT ![o] = d]
          /\ d \in [x : Int, y : Int] /\ Begun(o, m) /\ m \in Seq(Event)
      BY <3>1 DEF Chains, Chain, ChainTypes
    <3>3. /\ HasTask(o, "type") /\ Count(o, "type", left[o] - 1, Len(m))
          /\ Scrolled(o, "type", left[o] - 1, d)
      BY <1>1, <1>2, <2>1 DEF HasTask, Count, Scrolled
    <3>4. "type" \in Steps \ {"done"} /\ left[o] - 1 \in Int /\ step[o] # "done"
      BY <1>2, <2>1 DEF Steps
    <3> HIDE DEF m, d
    <3> QED
      BY <3>1, <3>2, <3>3, <3>4, PostKeeps
  <2> QED
    BY <2>2, <2>3
<1> QED
  BY <1>3, <1>4

\* The later ones.
LEMMA ContinueKeepsChains ==
  ASSUME Chains, NEW o \in Op, Continue(o) PROVE Chains'
<1> USE DEF Runs
<1>1. /\ left[o] \in Int /\ Len(sent[o]) \in Nat
      /\ HasTask(o, step[o]) /\ Count(o, step[o], left[o], Len(sent[o]))
      /\ Scrolled(o, step[o], left[o], scrolled[o])
  BY DEF Chains, Chain, ChainTypes
<1>2. CASE SnapshotArrives(o)
  <2>1. step[o] = "snapshot" /\ Kind[o] \in {"click", "hover", "drag"} /\ Len(sent[o]) = 0
    BY <1>1, <1>2 DEF SnapshotArrives, HasTask, Count
  <2>2. CASE Finish(o, "notFound") /\ UNCHANGED inputVars
    BY <2>1, <2>2, FailureKeeps DEF Statuses
  <2>3. ASSUME NEW n \in PathLength, AnimateMousePath(o, "move", n) PROVE Chains'
    <3>1. n \in Int
      BY InteractionAssumption
    <3> QED
      BY <2>1, <2>3, <3>1, PathKeepsChains
  <2> QED
    BY <1>2, <2>2, <2>3 DEF SnapshotArrives
<1>3. CASE MouseMoves(o)
  <2>1. PICK leg \in {"move", "drag"} : step[o] = leg /\ AnimateMousePath(o, leg, left[o])
    BY <1>3 DEF MouseMoves
  <2>2. /\ Kind[o] \in {"click", "hover", "drag"} /\ (leg = "drag" => Kind[o] = "drag")
        /\ Len(sent[o]) = IF leg = "drag" THEN 1 ELSE 0
        /\ step[o] # "done"
    BY <1>1, <2>1 DEF HasTask, Count
  <2> QED
    BY <1>1, <2>1, <2>2, PathKeepsChains
<1>4. CASE MouseDown(o)
  <2>1. step[o] = "down" /\ Kind[o] = "click" /\ Len(sent[o]) = 0
    BY <1>1, <1>4 DEF MouseDown, HasTask, Count
  <2>2. CASE ~view
    BY <1>4, <2>1, <2>2, NoViewKeeps DEF MouseDown
  <2>3. CASE view
    <3>1. Whole(o) = <<"down", "up">>
      BY <2>1 DEF Whole
    <3>2. /\ Len(sent[o]) < Len(Whole(o)) /\ "down" = Whole(o)[Len(sent[o]) + 1]
          /\ HasTask(o, "up") /\ Count(o, "up", 0, Len(sent[o]) + 1)
          /\ "up" \in Steps \ {"done"}
      BY <2>1, <3>1 DEF HasTask, Count, Steps
    <3> QED
      BY <1>4, <2>1, <2>3, <3>2, ForwardAndPost DEF MouseDown
  <2> QED
    BY <2>2, <2>3
<1>5. CASE MouseUp(o) \/ KeyUp(o)
  <2>1. step[o] \in {"up", "keyUp"} /\ Kind[o] \in {"click", "press"} /\ Len(sent[o]) = 1
    BY <1>1, <1>5 DEF MouseUp, KeyUp, HasTask, Count
  <2>2. CASE ~view
    BY <1>5, <2>1, <2>2, NoViewKeeps DEF MouseUp, KeyUp
  <2>3. CASE view
    <3>1. Whole(o) = <<"down", "up">>
      BY <2>1 DEF Whole
    <3>2. Len(sent[o]) + 1 = Len(Whole(o)) /\ "up" = Whole(o)[Len(sent[o]) + 1]
      BY <2>1, <3>1
    <3> QED
      BY <1>5, <2>1, <2>3, <3>2, ForwardAndFinish DEF MouseUp, KeyUp
  <2> QED
    BY <2>2, <2>3
<1>6. CASE TypeNextChar(o) \/ CharUp(o)
  BY <1>6, TypingKeeps
<1>7. CASE ScrollOn(o)
  <2>1. step[o] = "scroll" /\ Kind[o] = "scroll"
    BY <1>1, <1>7 DEF ScrollOn, HasTask
  <2> QED
    BY <1>1, <1>7, <2>1, ScrollStepKeeps DEF ScrollOn
<1>8. CASE EvalStatusJS(o)
  <2>1. /\ step[o] = "eval" /\ Kind[o] \notin {"press", "scroll"}
        /\ Ref[o] # "dom" => Len(sent[o]) = Len(Whole(o))
    BY <1>1, <1>8 DEF EvalStatusJS, HasTask, Count
  <2>2. OkIsWhole(o, sent[o], scrolled[o], <<"ok">>)
    BY <2>1 DEF OkIsWhole
  <2> QED
    BY <1>8, <2>1, <2>2, FinishOnly DEF EvalStatusJS, Statuses
<1>9. CASE UseAfterFree(o)
  BY <1>9, SameChains DEF UseAfterFree, inputVars
<1> QED
  BY <1>2, <1>3, <1>4, <1>5, <1>6, <1>7, <1>8, <1>9 DEF Continue

-----------------------------------------------------------------------------
\* Whatever starts the interactions, however many at once and however the page
\* changes under them, what each has forwarded is what its next task counts on.
THEOREM ChainsRight == ToolsSpec => []Chains
<1>1. ToolsInit => Chains
  <2> SUFFICES ASSUME ToolsInit PROVE Chains
    OBVIOUS
  <2>1. Init
    BY DEF ToolsInit
  <2>2. ChainTypes
    BY <2>1 DEF Init, ChainTypes, Steps
  <2>3. ASSUME NEW o \in Op
        PROVE  Chain(o, step[o], left[o], sent[o], scrolled[o], answer[o])
    <3>1. /\ step[o] = "idle" /\ left[o] = 0 /\ sent[o] = <<>> /\ answer[o] = <<>>
          /\ scrolled[o] = [x |-> 0, y |-> 0]
      BY <2>1 DEF Init
    <3>2. Len(Whole(o)) \in Nat
      BY KindsAndRefs
    <3>3. <<>> # <<"ok">> /\ Len(<<>>) = 0
      OBVIOUS
    <3>4. HasTask(o, "idle") /\ Count(o, "idle", 0, 0)
      BY DEF HasTask, Count
    <3>5. Begun(o, <<>>) /\ OkIsWhole(o, <<>>, [x |-> 0, y |-> 0], <<>>)
      BY <3>2, <3>3 DEF Begun, OkIsWhole
    <3>6. Scrolled(o, "idle", 0, [x |-> 0, y |-> 0])
      BY DEF Scrolled
    <3> QED
      BY <3>1, <3>3, <3>4, <3>5, <3>6 DEF Chain
  <2> QED
    BY <2>2, <2>3 DEF Chains
<1>2. Chains /\ [ToolsNext]_allVars => Chains'
  <2> SUFFICES ASSUME Chains, [ToolsNext]_allVars PROVE Chains'
    OBVIOUS
  <2>1. ASSUME UNCHANGED vars PROVE Chains'
    BY <2>1, SameChains DEF vars, inputVars
  <2>2. CASE Tasks
    BY <2>1, <2>2, ContinueKeepsChains
    DEF Tasks, Serve, Sent, ListCookies, GetCookie, SetCookie, DeleteCookie,
        ClearCookies, ReplyArrives, PageAnswers
  <2>3. CASE PageChanges
    BY <2>3, SameChains DEF PageChanges, ViewChanges, PageGone
  <2>4. ASSUME NEW o \in Op, HostStarts(o) PROVE Chains'
    BY <2>4, StartKeepsChains DEF HostStarts
  <2>5. ASSUME NEW t \in Tools, NEW given,
               \/ MissingArgument(t, given) \/ CallInteraction(t, given)
               \/ Refuse(t, given) \/ Send(t, given)
        PROVE  Chains'
    BY <2>1, <2>5, StartKeepsChains DEF MissingArgument, CallInteraction, Refuse, Send
  <2>6. CASE NetworkServiceDies \/ \E c \in Cookie : PageSetsCookie(c)
    BY <2>1, <2>6 DEF NetworkServiceDies, PageSetsCookie
  <2>7. CASE UNCHANGED allVars
    BY <2>1, <2>7 DEF allVars
  <2> QED BY <2>2, <2>3, <2>4, <2>5, <2>6, <2>7 DEF ToolsNext
<1> QED BY <1>1, <1>2, PTL DEF ToolsSpec

\* What has been carried out is a prefix of the whole.
LEMMA BegunIsPrefix ==
  ASSUME NEW o \in Op, NEW m \in Seq(Event), Begun(o, m)
  PROVE  /\ IsPrefix(m, Whole(o))
         /\ Len(m) = Len(Whole(o)) => m = Whole(o)
<1> DEFINE w == Whole(o)
<1>1. w \in Seq(Event) /\ Len(w) \in Nat /\ Len(m) \in Nat
  BY KindsAndRefs
<1>2. Len(m) <= Len(w) /\ \A i \in 1 .. Len(m) : m[i] = w[i]
  BY DEF Begun
<1> HIDE DEF w
<1>3. SubSeq(m, 1, Len(m)) = m
  BY <1>1, SubSeqFull
<1>4. /\ SubSeq(w, 1, Len(m)) \in Seq(Event)
      /\ Len(SubSeq(w, 1, Len(m))) = Len(m)
      /\ \A i \in 1 .. Len(m) : SubSeq(w, 1, Len(m))[i] = w[i]
  BY <1>1, <1>2, SubSeqProperties
<1>5. SubSeq(w, 1, Len(m)) = m
  BY <1>1, <1>2, <1>4, SeqEqual
<1>6. Len(m) = Len(w) => m = w
  BY <1>1, <1>2, SeqEqual
<1> QED
  BY <1>2, <1>3, <1>5, <1>6 DEF IsPrefix, w

\* "ok" is said only of an interaction that was carried out whole, and nothing
\* but the beginning of one is ever carried out.
THEOREM OkIsDone == ToolsSpec => []CarriedOutInFull
<1>1. Chains => CarriedOutInFull
  <2> SUFFICES ASSUME Chains, NEW o \in Op
               PROVE  /\ IsPrefix(sent[o], Whole(o))
                      /\ answer[o] = <<"ok">> /\ (Ref[o] # "dom" \/ Kind[o] = "press")
                           => sent[o] = Whole(o)
                      /\ answer[o] = <<"ok">> /\ Kind[o] = "scroll"
                         /\ (Delta[o].x = 0 \/ Delta[o].y = 0)
                           => scrolled[o] = Delta[o]
    BY DEF CarriedOutInFull, Whole
  <2>1. /\ sent[o] \in Seq(Event) /\ Begun(o, sent[o])
        /\ OkIsWhole(o, sent[o], scrolled[o], answer[o])
    BY DEF Chains, ChainTypes, Chain
  <2> QED
    BY <2>1, BegunIsPrefix DEF OkIsWhole
<1> QED BY <1>1, ChainsRight, PTL
=============================================================================
