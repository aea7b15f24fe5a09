----------------------------- MODULE MCChatLoop -----------------------------
(* A small instance of ChatLoop: a tool for each way a call can end.       *)
EXTENDS ChatLoop

Tool(zone, roles, url) ==
  [zone |-> zone, scopes |-> {}, roles |-> roles, url |-> url]

MCRegistry ==
  [name \in {Echo, "http", "nourl", "foreign", "guarded", "browser", "module"} |->
     CASE name = Echo      -> Tool("sphere", {}, "none")
       [] name = "http"    -> Tool("sphere", {}, "allowed")
       [] name = "nourl"   -> Tool("sphere", {}, "none")
       [] name = "foreign" -> Tool("sphere", {}, "foreign")
       [] name = "guarded" -> Tool("sphere", {"admin"}, "allowed")
       [] name = "browser" -> Tool("satellite", {}, "none")
       [] name = "module"  -> Tool("wasm", {}, "none")]

Call(id, name, args) == [id |-> id, name |-> name, args |-> args]

(* One call of each kind, no call, and mixtures of calls.                  *)
MCCallLists ==
  {<<Call("a", name, "valid")>> : name \in DOMAIN MCRegistry}
  \cup {<<>>,
        <<Call("a", "http", "huge")>>,
        <<Call("a", Echo, "hugeSplit")>>,
        <<Call("a", "ghost", "valid"), Call("b", "http", "valid")>>,
        <<Call("a", "http", "valid"), Call("b", "http", "invalid")>>,
        <<Call("a", "guarded", "valid"), Call("b", Echo, "valid"),
          Call("c", "ghost", "invalid")>>}

MCInboxes == {<<"clean">>, <<"control", "clean">>, <<"clean", "null">>, <<>>}
=============================================================================
