--------------------------- MODULE MCTelegramPush ---------------------------
(* One modem with or without its SIM, one message and two bots: the        *)
(* constants are in push_offline.cfg.                                      *)
EXTENDS TelegramPush
=============================================================================
