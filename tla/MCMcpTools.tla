----------------------------- MODULE MCMcpTools -----------------------------
(* Constants of McpTools for TLC.                                            *)
EXTENDS McpTools, TLC

CONSTANTS click, hover, type, press, select, drag, down,
          domType, badClick, mixedDrag

MCKind ==
  (click :> "click") @@ (hover :> "hover") @@ (type :> "type") @@
  (press :> "press") @@ (select :> "select") @@ (drag :> "drag") @@
  (down :> "scroll") @@ (domType :> "type") @@
  (badClick :> "click") @@ (mixedDrag :> "drag")

KindOf == [o \in Op |-> MCKind[o]]

RefOf ==
  [o \in Op |-> CASE o = domType -> "dom" [] o = badClick -> "bad"
                  [] o = mixedDrag -> "mixed" [] OTHER -> "node"]

TextOf == [o \in Op |-> IF KindOf[o] = "type" THEN <<"a", "b">> ELSE <<>>]

\* Straight down.
DeltaOf ==
  [o \in Op |-> IF o = down THEN [x |-> 0, y |-> -5] ELSE [x |-> 0, y |-> 0]]
=============================================================================
