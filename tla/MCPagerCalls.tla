----------------------------- MODULE MCPagerCalls -----------------------------
(***************************************************************************)
(* The pager with payloads of one, two and three pages.                    *)
(***************************************************************************)
EXTENDS PagerCalls

CONSTANTS a, b

MCChunk == {a, b}
MCPayloads == {<<a>>, <<a, b>>, <<b, a, b>>}
=============================================================================
