---------------------------- MODULE MCTcpClient ----------------------------
(***************************************************************************)
(* TLC instance of TcpClient.                                              *)
(***************************************************************************)
EXTENDS TcpClient
=============================================================================
