------------------------------- MODULE MCTexts -------------------------------
(***************************************************************************)
(* Two pages, one below the other, a solution, and two numbers that are an *)
(* erratum's and a CVE's.                                                  *)
(***************************************************************************)
EXTENDS Texts

MCPages == { <<"/", "documentation", "/", "guide">>,
             <<"/", "documentation", "/", "guide", "/", "chapter">>,
             <<"/", "solutions", "/", "1">> }
MCNumbers == {"1", "2"}
=============================================================================
