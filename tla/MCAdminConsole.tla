-------------------------- MODULE MCAdminConsole --------------------------
EXTENDS AdminConsole, TLC

CONSTANTS topk, model, a, b, c

\* The value b carries a comment, which load_dotenv drops.
MCParsed == (a :> a) @@ (b :> a) @@ (c :> c)
MCDeployed == (topk :> a) @@ (model :> a)
MCForms == {(topk :> c) @@ (model :> b), (topk :> a) @@ (model :> None),
            (topk :> b) @@ (model :> Bad)}
=============================================================================
