----------------------------- MODULE MCModelCall -----------------------------
\* A small instance of the turns that reach the model.
EXTENDS ModelCall

CONSTANTS getUser, saveFund, getFund

MCModuleOf == [t \in Tools |-> IF t = getUser THEN "administration" ELSE "fund"]
Calling(ts, noIds) == [tools |-> ts, spelled |-> noIds]
MCAsks == {Calling(<<getUser, getUser>>, TRUE), Calling(<<saveFund>>, TRUE),
           Calling(<<getUser, saveFund, getUser>>, FALSE)}
MCListings == {Tools, {getUser}}
=============================================================================
