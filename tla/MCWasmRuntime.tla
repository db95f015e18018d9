--------------------------- MODULE MCWasmRuntime ---------------------------
(* Constants of the run of WasmRuntime: one module name, deployed in two versions. *)
EXTENDS WasmRuntime

CONSTANTS h1, h2, w1, c1, subs, main1, m, a

MCActors == {h1, h2, w1, c1, subs, main1}
MCCellOrder == << <<a, 1>>, <<a, 2>> >>

Program(ops, status) == [ops |-> ops, status |-> status]
Read(k) == [op |-> "read", cell |-> <<a, k>>, val |-> NoRow]
Write(k, v) == [op |-> "write", cell |-> <<a, k>>, val |-> v]
Delete(k) == [op |-> "delete", cell |-> <<a, k>>, val |-> NoRow]
EmitOp == [op |-> "emit", cell |-> <<a, 1>>, topic |-> "topic", val |-> "payload"]

NoHandler == Program(<<>>, "no_handler")
MCGuest(fn) ==
  CASE fn = "reducer" -> {Program(<<Read(1)>>, "ok"), Program(<<EmitOp, Delete(1)>>, "ok")}
    [] fn = "tick" -> {Program(<<Write(1, "y"), EmitOp>>, "ok")}
    [] fn = "__init" -> {NoHandler}
    [] fn = "__migrate" -> {NoHandler, Program(<<>>, "negative")}
    [] fn \in {"filter", "transform", "__get_initial_data"} -> {Program(<<>>, "ok")}
    [] OTHER -> {NoHandler}

Symmetry == Permutations({h1, h2})
MCReserved == {"__init", "__migrate", "__client_connected", "__client_disconnected",
               "__get_initial_data"}

Deployment(code, version) == [code |-> code, version |-> version, tables |-> {}, read_only |-> FALSE]
MCDeployments == {Deployment("B", 2), Deployment("invalid", 2)}

MCInstalled == m :> [wasm |-> "A", manifest |-> [version |-> 1, sha256 |-> "A"]]

MCRequests == {[module |-> m, tables |-> {}, filter |-> TRUE, transform |-> FALSE, initial |-> FALSE],
               [module |-> m, tables |-> {a}, filter |-> FALSE, transform |-> FALSE, initial |-> TRUE]}
=============================================================================
