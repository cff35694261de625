----------------------------- MODULE MCTelegram -----------------------------
(* An operator who writes in two chats, and another user of the first chat.  *)
EXTENDS Telegram

CONSTANTS home, other, ann, bob
MCChats == {home, other}
MCInputs == {<<home, ann, "begin">>, <<home, ann, "confirm">>, <<home, ann, "query">>, <<home, ann, "chatter">>,
             <<other, ann, "begin">>, <<other, ann, "confirm">>,
             <<home, bob, "confirm">>}
=============================================================================
