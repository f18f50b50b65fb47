---------------------------- MODULE MCScriptRun -----------------------------
\* An instance of ScriptRun for TLC: three scripts on two workers, two of which
\* share the broker connection, and values on both sides of the conversion's budgets.
EXTENDS ScriptRun, TLC

CONSTANTS asks, tells, plain

MCCalls == (asks :> <<"ask">>) @@ (tells :> <<"tell", "exec">>) @@ (plain :> <<>>)

Str(n) == Value("string", n, <<>>)
Dict(parts) == Value("dict", 0, parts)
List(parts) == Value("list", 0, parts)
Out(heap) == [heap |-> heap, root |-> 1]

Empty == Out(<<Dict(<<>>)>>)
\* One that contains itself, one whose shared string is small until it is written
\* out, one that is nested too deep, and one that just fits.
Cyclic == Out(<<Dict(<<1>>)>>)
Deep == Out(<<Dict(<<2>>), List(<<>>)>>)
Shared == Out(<<Dict(<<2, 2>>), Str(3)>>)
Full == Out(<<Dict(<<2, 2>>), Str(2)>>)

MCValues == (asks :> {Deep}) @@ (tells :> {Empty}) @@ (plain :> {Cyclic, Shared, Full})
=============================================================================
