----------------------------- MODULE MCEchoServer -----------------------------
EXTENDS EchoServer, TLC

Symmetric == Permutations(Client) \cup Permutations(Conn)
===============================================================================
