---------------------------------- MODULE MCBot ----------------------------------
(* Instances of Bot for TLC: one text that ends a bot, one whose answer is a        *)
(* command to the other bot.                                                        *)
EXTENDS Bot

Texts == {<<"!quit">>, <<"!echo ", "!ping">>}
================================================================================
