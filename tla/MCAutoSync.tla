----------------------------- MODULE MCAutoSync -----------------------------
(* Folders of one server for TLC. *)
EXTENDS AutoSync

MCFolderList == <<"inbox", "sub">>
MCServer == [f \in {"inbox", "sub"} |-> 0]
MCRank == "inbox" :> 0 @@ "sub" :> 1

\* Two messages in one folder, the second larger than a group, one in the other.
MCMsgsOf == "inbox" :> {1, 3} @@ "sub" :> {2}
MCSize == 1 :> 1 @@ 2 :> 1 @@ 3 :> 3

\* One message in each.
MCMsgsOf2 == "inbox" :> {1} @@ "sub" :> {2}
MCSize2 == 1 :> 1 @@ 2 :> 1

\* One folder with one message.
MCFolderList1 == <<"inbox">>
MCServer1 == "inbox" :> 0
MCRank1 == "inbox" :> 0
MCMsgsOf1 == "inbox" :> {1}
MCSize1 == 1 :> 1
=============================================================================
