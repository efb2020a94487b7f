--------------------------- MODULE MCTelegramChat ---------------------------
(* Two modems, one of which has USSD; what is typed is one word or another. *)
EXTENDS TelegramChat

\* The bot never reads the history, and the history knows nothing of the bot:
\* the rows are explored while nobody talks to it, and the conversations
\* while the runner can write nothing and a dialogue that is over is idle.
Apart == \/ rows' = <<>> /\ unwritten' = Writes /\ entry'.st # "unknown"
         \/ session' = None /\ handler' = Free /\ pushed' = "no"
=============================================================================
