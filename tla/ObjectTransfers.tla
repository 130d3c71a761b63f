--------------------------- MODULE ObjectTransfers ---------------------------
(***************************************************************************)
(* The two transfers of a remote run (bounded.rs, run_bounded_pipeline_s3):*)
(* the input object is downloaded, and when that has succeeded the output  *)
(* made from it is uploaded.  Others may replace the input at any time,    *)
(* during the upload too.                                                  *)
(***************************************************************************)
EXTENDS SnapshotDownload, MultipartUpload

TransfersInit == Init /\ UploadInit

Downloading == Next /\ UNCHANGED uploadVars

Uploading == pc = "returned" /\ result = "Ok" /\ UploadNext /\ UNCHANGED vars

TransfersSpec ==
    TransfersInit /\ [][Downloading \/ Uploading]_<<vars, uploadVars>>
=============================================================================
