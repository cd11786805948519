--------------------------- MODULE MCPageOperations ---------------------------
(* Constants of PageOperations for TLC: two sites, and about:blank.          *)
EXTENDS PageOperations, TLC

CONSTANTS p1, a2, b1, blank, siteA, siteB,
          nav, away, back, create, reload, wait, shot, cookie

MCHost == (a2 :> siteA) @@ (b1 :> siteB) @@ (blank :> NoHost)

\* The first site may send its visitors to the second.
MCRedirect == [u \in Url |-> IF u = a2 THEN Url \cap {a2, b1} ELSE {u}]

MCKind ==
  (nav :> "navigate") @@ (back :> "history") @@ (create :> "create") @@
  (away :> "navigate") @@ (reload :> "reload") @@ (wait :> "wait") @@
  (shot :> "screenshot") @@ (cookie :> "cookies")

KindOf == [o \in Op |-> MCKind[o]]
HostOf == [u \in Url |-> MCHost[u]]
TargetOf ==
  [o \in Op |-> CASE o = create -> b1 [] o = nav -> a2 [] o = away -> blank
                  [] OTHER -> NoUrl]

WaitOf == [o \in Op |-> 5000]
=============================================================================
