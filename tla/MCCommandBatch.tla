--------------------------- MODULE MCCommandBatch ---------------------------
\* An instance of CommandBatch for TLC: lists of commands with their barriers,
\* repetitions and deferred payloads, on a device with a packaged script.
EXTENDS CommandBatch

Cmd(id, type, v) == [id |-> id, type |-> type, name |-> "a", version |-> v, deferred |-> FALSE]
Ref(id, type, v) == [Cmd(id, type, v) EXCEPT !.deferred = TRUE]

MCDeliveries == {
  <<Ref("x", "install_script", "2"), Cmd("y", "list_scripts", ""), Cmd("z", "remove_script", "")>>,
  <<Cmd("x", "list_scripts", ""), Cmd("y", "unsupported", ""), Cmd("z", "list_scripts", ""),
    Cmd("x", "install_script", "2")>>,
  <<Cmd("x", "list_scripts", ""), Cmd("y", "remove_script", "")>>,
  <<Ref("x", "install_script", "2"), Ref("x", "install_script", "1"), Cmd(NoId, "list_scripts", "")>>,
  <<Ref("x", "run_script", ""), Cmd("y", "remove_script", "2")>>}

Empty == [p \in Paths |-> NoFile]
At(d, v) == <<d, FileName("a", v)>>
MCLayouts == {[Empty EXCEPT ![At("packaged", "v1")] = Script("a", "v1")]}
MCCliScripts == {<<"a", "2">>}
=============================================================================
