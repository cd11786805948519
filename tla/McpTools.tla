------------------------------- MODULE McpTools -------------------------------
(***************************************************************************)
(* The tools of an MCP client (browserd/mcp/tools) over the operations of  *)
(* the controller.  The interactions of Interactions are started either by *)
(* a host linked with the library, several at once, or by tool calls, of   *)
(* which the server runs one at a time.  The cookie operations are here    *)
(* whole (browser_controller.cc): a request to the network service, which  *)
(* serves it, and a reply that reaches the tool in a later task, while     *)
(* pages go on setting cookies.  Every other operation of the controller   *)
(* (PageOperations, BrowserProcess) is one that ends well or badly.        *)
(*                                                                         *)
(* Of the arguments of a call there is which of them it has, with the type *)
(* the tool looks for; of an answer, what it tells the client of cookies.  *)
(***************************************************************************)
EXTENDS Interactions

CONSTANTS
  CookieName,  \* names of cookies
  Site,        \* the sites they belong to: an URL, a domain
  MaxCalls,    \* bound: tool calls of a run
  MaxChanges   \* bound: cookies that pages change in a run

Cookie == [name : CookieName, site : Site]

Absent == "absent"

ASSUME CookieAssumption ==
  /\ Absent \notin Site \cup CookieName
  /\ MaxCalls \in Nat /\ MaxChanges \in Nat

\* The tools, each with the arguments it refuses to go without.
NavigationTools ==
  [browser_navigate |-> {"url"}, browser_navigate_back |-> {},
   browser_navigate_forward |-> {}, browser_reload |-> {}]

SnapshotTools == [browser_snapshot |-> {}, browser_take_screenshot |-> {}]

InteractionTools ==
  [browser_click |-> {"ref"}, browser_hover |-> {"ref"},
   browser_type |-> {"ref", "text"}, browser_press_key |-> {"key"},
   browser_select_option |-> {"ref", "values"},
   browser_drag |-> {"startRef", "endRef"}, browser_scroll |-> {}]

EvaluateTools ==
  [browser_evaluate |-> {"expression"}, browser_console_messages |-> {}]

WaitTools == [browser_wait_for |-> {}]

TabTools ==
  [browser_tab_list |-> {}, browser_tab_new |-> {}, browser_close |-> {},
   browser_resize |-> {}]

CookieTools ==
  [browser_cookie_list |-> {}, browser_cookie_get |-> {"name"},
   browser_cookie_set |-> {"name", "value"}, browser_cookie_delete |-> {"name"},
   browser_cookie_clear |-> {}]

Groups == {NavigationTools, SnapshotTools, InteractionTools, EvaluateTools,
           WaitTools, TabTools, CookieTools}

Tools == UNION {DOMAIN g : g \in Groups}

Required == [t \in Tools |-> UNION {g[t] : g \in {h \in Groups : t \in DOMAIN h}}]

\* wait_for needs one of two; the URL, or domain, of a cookie may be left out.
Optional(t) ==
  CASE t = "browser_wait_for" -> {"selector", "text"}
    [] t \in {"browser_cookie_list", "browser_cookie_set",
              "browser_cookie_delete"} -> {"url"}
    [] OTHER -> {}

\* The tool of an interaction.
ToolOf ==
  [click |-> "browser_click", hover |-> "browser_hover", type |-> "browser_type",
   press |-> "browser_press_key", select |-> "browser_select_option",
   drag |-> "browser_drag", scroll |-> "browser_scroll"]

PageTools == Tools \ (DOMAIN CookieTools \cup DOMAIN InteractionTools)

VARIABLES
  client,   \* who starts operations: a "host", or "mcp"
  calls,    \* tool calls so far
  request,  \* the operation a tool call waits for, an interaction apart
  jar,      \* the cookies of the profile
  changes,  \* how often pages have changed a cookie
  touched,  \* history: cookies pages have changed since the request was made
  told      \* history: what the client knows of a cookie from the answers it
            \* has had, forgotten when a page changes it: "set", "gone" or ""

toolVars == <<client, calls, request, jar, changes, touched, told>>
allVars == <<vars, toolVars>>

\* A request: its tool, name and site; "sent" to where it is served, "lost", or
\* the status that comes back; and the cookies that come back with it.
NoRequest == [tool |-> "none", name |-> Absent, site |-> Absent,
              is |-> "none", listed |-> {}]

ToolsInit ==
  /\ Init
  /\ client \in {"host", "mcp"}
  /\ calls = 0
  /\ request = NoRequest
  /\ jar = {} /\ changes = 0 /\ touched = {}
  /\ told = [c \in Cookie |-> ""]

-----------------------------------------------------------------------------
(* Answers.  What each says of the cookies: nothing, when it is an error.  *)

\* A cookie that a request with this name and this site means.
Matches(c, n, s) == n \in {c.name, Absent} /\ s \in {c.site, Absent}

About(r) == {c \in Cookie : Matches(c, r.name, r.site)}

\* The client has been told of the cookies of S what f says.
Learns(S, f(_)) ==
  told' = [c \in Cookie |-> IF c \in S \ touched THEN f(c) ELSE told[c]]

Gone(c) == "gone"
Set(c) == "set"

FormatCookieList(r) ==
  IF r.is = "ok"
  THEN Learns(About(r), LAMBDA c : IF c \in r.listed THEN "set" ELSE "gone")
  ELSE UNCHANGED told

\* One that has the name, of those listed; that there is none is no error.
FormatCookieGet(r) ==
  \/ r.is = "ok" /\ \E c \in r.listed \cap About(r) : Learns({c}, Set)
  \/ r.is = "ok" /\ r.listed \cap About(r) = {} /\ Learns(About(r), Gone)
  \/ r.is # "ok" /\ UNCHANGED told

CompleteSet(r) == IF r.is = "ok" THEN Learns(About(r), Set) ELSE UNCHANGED told

CompleteClear(r) == IF r.is = "ok" THEN Learns(Cookie, Gone) ELSE UNCHANGED told

\* That there was none to delete is no error either.
CompleteDelete(r) ==
  IF r.is \in {"ok", "notFound"} THEN Learns(About(r), Gone) ELSE UNCHANGED told

Answers(r) ==
  \/ r.tool = "browser_cookie_list" /\ FormatCookieList(r)
  \/ r.tool = "browser_cookie_get" /\ FormatCookieGet(r)
  \/ r.tool = "browser_cookie_set" /\ CompleteSet(r)
  \/ r.tool = "browser_cookie_delete" /\ CompleteDelete(r)
  \/ r.tool = "browser_cookie_clear" /\ CompleteClear(r)
  \/ r.tool \in PageTools /\ UNCHANGED told

-----------------------------------------------------------------------------
(* A tool call.  The server has no other one under way.                    *)

Calls(t, given) ==
  /\ client = "mcp" /\ ~crashed /\ calls < MaxCalls
  /\ request = NoRequest /\ \A o \in Op : step[o] \in {"idle", "done"}
  /\ given \subseteq Required[t] \cup Optional(t)
  /\ calls' = calls + 1
  /\ UNCHANGED <<client, changes>>

HasArguments(t, given) ==
  /\ Required[t] \subseteq given
  /\ t = "browser_wait_for" => given # {}

\* The tool answers by itself: an argument is missing, or has another type.
MissingArgument(t, given) ==
  /\ Calls(t, given) /\ ~HasArguments(t, given)
  /\ UNCHANGED <<vars, request, jar, touched, told>>

\* The interaction's callback answers the call.
CallInteraction(t, given) ==
  /\ Calls(t, given) /\ HasArguments(t, given)
  /\ \E o \in Op : t = ToolOf[Kind[o]] /\ Start(o)
  /\ UNCHANGED <<request, jar, touched, told>>

\* What the arguments ask for.  set takes the site from the page when it is not
\* given; delete and list do without.
Asks(t, given) ==
  {r \in [tool : {t}, name : CookieName \cup {Absent}, site : Site \cup {Absent},
          is : {"sent"}, listed : {{}}] :
     /\ r.name = Absent <=> "name" \notin given
     /\ r.site = Absent <=> "url" \notin given /\ t # "browser_cookie_set"}

\* No runtime, no such tab, no cookie manager, or an URL or a cookie that is none.
Refuse(t, given) ==
  /\ Calls(t, given) /\ HasArguments(t, given)
  /\ t \in PageTools \cup DOMAIN CookieTools
  /\ \E r \in Asks(t, given), s \in {"tabNotFound", "invalidArgument"} :
       Answers([r EXCEPT !.is = s])
  /\ UNCHANGED <<vars, request, jar, touched>>

Send(t, given) ==
  /\ Calls(t, given) /\ HasArguments(t, given) /\ open
  /\ t \in PageTools \cup DOMAIN CookieTools
  /\ request' \in Asks(t, given)
  /\ touched' = {}
  /\ UNCHANGED <<vars, jar, told>>

-----------------------------------------------------------------------------
(* The network service, and what comes back from it.                       *)

Sent(t) ==
  /\ request.tool = t /\ request.is = "sent"
  /\ UNCHANGED <<vars, client, calls, changes, touched, told>>

Replies(status, cookies) ==
  request' = [request EXCEPT !.is = status, !.listed = cookies]

ListCookies ==
  /\ Sent("browser_cookie_list")
  /\ Replies("ok", {c \in jar : Matches(c, Absent, request.site)})
  /\ UNCHANGED jar

\* GetCookie lists every cookie, of whatever site.
GetCookie ==
  /\ Sent("browser_cookie_get")
  /\ Replies("ok", jar)
  /\ UNCHANGED jar

SetCookie ==
  /\ Sent("browser_cookie_set")
  /\ \/ Replies("ok", {}) /\ jar' = jar \cup About(request)
     \/ Replies("internalError", {}) /\ UNCHANGED jar

\* Mutant: the URL is not put into the filter.
DeletionFilter_ByName(r) == {c \in Cookie : Matches(c, r.name, Absent)}

DeletionFilter(r) == {c \in Cookie : Matches(c, r.name, r.site)}

DeleteCookie ==
  /\ Sent("browser_cookie_delete")
  /\ jar' = jar \ DeletionFilter(request)
  /\ Replies(IF jar' = jar THEN "notFound" ELSE "ok", {})

\* The filter has neither a name nor an URL.
ClearCookies ==
  /\ Sent("browser_cookie_clear")
  /\ jar' = {}
  /\ Replies("ok", {})

\* The callback of another operation of the controller.
PageAnswers ==
  /\ ~crashed /\ request.tool \in PageTools
  /\ request' = NoRequest /\ touched' = {}
  /\ Answers(request)
  /\ UNCHANGED <<vars, client, calls, changes, jar>>

ReplyArrives ==
  /\ ~crashed /\ request.tool \in DOMAIN CookieTools
  /\ request.is \notin {"sent", "lost"}
  /\ request' = NoRequest /\ touched' = {}
  /\ Answers(request)
  /\ UNCHANGED <<vars, client, calls, changes, jar>>

-----------------------------------------------------------------------------
(* What the client does not do.                                            *)

\* A page sets or removes a cookie of its own.  Bound: before the interactions,
\* which do not look at cookies.
PageSetsCookie(c) ==
  /\ client = "mcp" /\ open /\ \A o \in Op : step[o] = "idle"
  /\ changes < MaxChanges /\ changes' = changes + 1
  /\ jar' \in {jar \cup {c}, jar \ {c}} /\ jar' # jar
  /\ touched' = IF request = NoRequest THEN {} ELSE touched \cup {c}
  /\ told' = [told EXCEPT ![c] = ""]
  /\ UNCHANGED <<vars, client, calls, request>>

\* Bound: a view changes under an MCP client while an interaction uses it.
PageChanges ==
  /\ \/ ViewChanges /\ (client = "host" \/ \E o \in Op : step[o] \notin {"idle", "done"})
     \/ PageGone
  /\ UNCHANGED toolVars

\* The network service dies and is started again.  A callback it had is dropped
\* without being run, whether what was asked for had been done or not, and
\* cookies it had not written are gone.
NetworkServiceDies ==
  /\ client = "mcp" /\ ~crashed
  /\ request.tool \in DOMAIN CookieTools /\ request.is = "sent"
  /\ request' = [request EXCEPT !.is = "lost"]
  /\ LET written == IF request.tool = "browser_cookie_set" THEN About(request) ELSE {}
     IN  jar' \in SUBSET (jar \cup written)
  /\ told' = [c \in Cookie |-> IF c \in jar \ jar' THEN "" ELSE told[c]]
  /\ UNCHANGED <<vars, client, calls, changes, touched>>

-----------------------------------------------------------------------------
HostStarts(o) ==
  client = "host" /\ Start(o) /\ UNCHANGED toolVars

Serve == ListCookies \/ GetCookie \/ SetCookie \/ DeleteCookie \/ ClearCookies

Tasks ==
  \/ (\E o \in Op : Continue(o)) /\ UNCHANGED toolVars
  \/ Serve
  \/ ReplyArrives \/ PageAnswers

ToolsNext ==
  \/ Tasks
  \/ PageChanges
  \/ \E o \in Op : HostStarts(o)
  \/ \E t \in Tools : \E given \in SUBSET (Required[t] \cup Optional(t)) :
       \/ MissingArgument(t, given) \/ CallInteraction(t, given)
       \/ Refuse(t, given) \/ Send(t, given)
  \/ \E c \in Cookie : PageSetsCookie(c)
  \/ NetworkServiceDies

\* A posted task runs in the end, a snapshot and a script answer within their
\* timeouts, and a request is served.  Nothing is assumed of browser_reload, of
\* the page or of callers.
ToolsSpec ==
  /\ ToolsInit /\ [][ToolsNext]_allVars
  /\ WF_allVars(Tasks /\ request.tool # "browser_reload")

-----------------------------------------------------------------------------
(* Properties.                                                             *)

\* What the answers have told a client of a cookie is so for as long as no page
\* changes it: one it was told is set is in the jar, with the deletions of other
\* cookies it has asked for since, and one it was told is gone is not.  Nothing
\* is said of the cookies of a request that has not been answered.
AnswersAreTrue ==
  \A c \in Cookie :
    request = NoRequest \/ c \notin About(request) =>
      /\ told[c] = "set" => c \in jar
      /\ told[c] = "gone" => c \notin jar

Waiting ==
  \/ \E o \in Op : step[o] # "idle" /\ answer[o] = <<>>
  \/ request.is \notin {"none", "lost"} /\ request.tool # "browser_reload"

\* Whoever starts operations has the answers in the end, a host that of each
\* interaction and an MCP client that of its call, whatever the page and the
\* network service do, or the process has died; but for a reload that goes on
\* and a reply that was lost.
EveryCallAnswered == Waiting ~> ~Waiting \/ crashed
=============================================================================
