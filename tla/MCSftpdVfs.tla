----------------------------- MODULE MCSftpdVfs -----------------------------
(* Two clients on two names; a scratch buffer of two units and transfers of *)
(* up to three, so that a transfer takes two rounds of the bridge.          *)
EXTENDS SftpdVfs, TLC

CONSTANTS a, b, z, x

Names == {"getcwd", "opendir", "readdir", "closedir", "mkdir", "rmdir", "remove",
          "rename", "stat", "open", "close"}
Transfers == {"open", "read", "write", "close"}
Brief == {"stat", "mkdir"}

TwoBuffers == {<<x>>, <<z, x, z>>}

Clients == Permutations(Session)

Creates == {"read", "write", "write_trunc"}
Updates == {"rdwr", "write_append"}

OneFile == {(a :> File(<<x, z, x>>) @@ b :> Absent)}
FileAndDirectory == {(a :> File(<<x>>) @@ b :> Directory)}
=============================================================================
