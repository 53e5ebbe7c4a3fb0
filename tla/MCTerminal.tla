----------------------------- MODULE MCTerminal -----------------------------
(* Instances of Terminal for TLC: the texts, and what programs draw on.    *)
EXTENDS Terminal

MCCharacters == {"a", "b", "c", "r", "x", ">", NL, BS}
MCPrompt == <<">">>
MCBanner == <<"b", NL>>
MCControls == <<"c">>
MCGoodbye == <<"r", NL, NL, NL>>
MCOutputs == {<<"x", NL, NL, NL>>}
MCAreas == {{<<0, 0>>, <<0, 1>>, <<3, 3>>}}
=============================================================================
