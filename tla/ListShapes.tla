---------------------------- MODULE ListShapes ----------------------------
(***************************************************************************)
(* The shape of every list the PAO backend serves: which columns tell two  *)
(* rows of a repository's query apart, which of them the request fixes,    *)
(* what the query orders by, how it reads `skip`, and which columns the    *)
(* answer shows.  Lists.tla walks these lists page by page.                *)
(*                                                                         *)
(* Only the columns that tell rows apart are named; the amounts, names and *)
(* flags beside them are left out.                                         *)
(***************************************************************************)

EXTENDS Integers

(* A query: `step` says what the repository makes of skip and limit:
     "page"    Offset(Skip*Limit).Limit(Limit)
     "record"  Offset(Skip).Limit(Limit)
     "all"     neither
     "ten"     Limit(10), no offset
     "one"     Limit(1), no order: any row that matches                    *)
Query(key, fixed, order, step) ==
  [key |-> key, fixed |-> fixed, order |-> order, step |-> step]
Paged(key, fixed, order) == Query(key, fixed, order, "page")
Whole(key, fixed) == Query(key, fixed, {}, "all")
AnyOne(key, fixed) == Query(key, fixed, {}, "one")

(* The order leaves no two rows of one request in an undetermined order. *)
Total(q) == q.key \subseteq q.fixed \cup q.order

(* A handler: the query, what its answer shows, and whether it binds skip and
   limit from the request at all.  A limit of 0 becomes math.MaxInt32. *)
Listing(q, shown) == [query |-> q, shown |-> shown, binds |-> TRUE]
Unbound(q, shown) == [query |-> q, shown |-> shown, binds |-> FALSE]

(* Two different rows of one request look different in the answer. *)
Tells(l) == l.query.key \subseteq l.query.fixed \cup l.shown

-----------------------------------------------------------------------------
(* DDOs, offices and heads of account.                                       *)

GetDDOsRepo(pao) ==
  Paged({"ddo_code"}, IF pao = "999999" THEN {} ELSE {"pao_code"}, {"ddo_code"})
GetDDOlistRepo == Paged({"ddo_code"}, {"pao_code", "date"}, {"ddo_code"})
GetDDOlistMonthlyRepoUnordered == Paged({"ddo_code"}, {"pao_code", "period"}, {})
GetDDOlistMonthlyRepo == Paged({"ddo_code"}, {"pao_code", "period"}, {"ddo_code"})
GetDDOlistMonthlyOffRepo == Paged({"ddo_code"}, {"pao_office_id", "period"}, {"ddo_code"})
GetDDOdetailRepo ==
  Paged({"hoa", "created_date"}, {"ddo_code", "business_date"}, {"ddo_code"})
CheckEmptyCashbookRepo ==
  Paged({"opening_bal", "closing_bal"}, {"ddo_code", "business_date"}, {"ddo_code"})
GetDDOdetail_monthlyRepo ==
  Paged({"hoa"}, {"ddo_code", "period"}, {"kind", "ddo_code", "hoa"})
CheckEmptyCashbookMonthlyRepo ==
  Paged({"opening_bal", "closing_bal"}, {"ddo_code", "period"}, {"ddo_code"})
GetPAOsRepo == Whole({"pao_code", "pao_office_id", "pao_name"}, {})
GetInterPAOsRepo == Whole({"ddo_code"}, {})
GetHoaonlyRepo == Query({"hoa", "hoa_description"}, {}, {}, "ten")
GetAccountCodeRepo == Query({"account_code", "account_code_description"}, {}, {}, "ten")
GetOfficenameRepo == AnyOne({"ddo_code"}, {"ddo_office_id"})
GetSOOfficeDetailsRepo == AnyOne({"ddo_code"}, {"office_id"})

(* Cash books and their submissions.  A pending cash book that was never listed
   has no pfms_ddo_id, so that column does not order it. *)
GetPfmspendingRepo == Paged({"ddo_code", "business_date"}, {"pao_code"}, {"pfms_ddo_id"})
GetPfmsSubmissionStatusListRepo ==
  Paged({"ddo_code", "business_date"}, {"pao_code"}, {"business_date", "ddo_code"})
GetPfmsxmlteRepo == Paged({"transfer_entry_id"}, {"pao_code"}, {"business_date"})
GetPfmsxmlSubmissionStatusRepo == Whole({"pfms_unique_id"}, {"fin_year"})
GetCashbookReversionListRepoByFlag == Paged({"date"}, {"ddo_code"}, {"h_verification_flag"})
GetCashbookReversionListRepo == Paged({"date"}, {"ddo_code"}, {"date"})
GetReversionPendingRepo == Whole({"reversion_id"}, {"pao_code"})
GetReversionRecordsMainRepo ==
  Query({"reversion_id"}, {"pao_code"}, {"ddo_code", "business_date"}, "record")
GetAllReversionRecordsRepo ==
  Query({"reversion_id"}, {"pao_code"}, {"ddo_code", "business_date"}, "record")

(* Monthly accounts. *)
GetDdoPfmsStatusRepo == Paged({"ddo_code", "period"}, {"ddo_code"}, {"period"})
GetPraoAccountRepo == Paged({"pao_code", "hoa", "period"}, {"pao_code", "period"}, {"pao_code"})
PraoAccountSubStatusRepo == Paged({"pao_code", "period"}, {"pao_code", "period"}, {"pao_code"})
PraoAccountSubStatusListRepo == Paged({"pao_code", "pao_name"}, {"period"}, {"pao_code"})
GetbroadsheetRepo(type) ==
  Paged({"broadsheet_month", "hoa", "ddo_code"},
        {"broadsheet_month"} \cup (IF type \in {2, 4} THEN {"ddo_code"} ELSE {}),
        {"ddo_code"})

(* Appropriation accounts and remuneration. *)
GetappracctRepo == Paged({"hoa", "hoa_description"}, {"financial_year"}, {})
GetappracctRepo2 == Paged({"hoa", "hoa_description"}, {"financial_year"}, {})
GetappracctRepo3 == Paged({"hoapart", "mh", "smh", "minorhead", "subhoa"}, {"financial_year"}, {})
GetRemRepo(type) ==
  Paged({"financial_year", "remuneration_item", "remuneration_type", "authorisation_status"},
        CASE type = 1 -> {"financial_year"} [] type = 2 -> {"authorisation_status"} [] OTHER -> {},
        {"financial_year", "remuneration_item"})
RemunerationCalculatedYearRepo ==
  Paged({"financial_year", "remuneration_item", "remuneration_type"},
        {"financial_year"}, {"financial_year"})

(* Transfer entries.  A sub-account's lines are joined with the heads of the
   entry that answers them; the line's own te_id is not selected. *)
TransferentryReportRepo ==
  Query({"transfer_entry_id", "hoa"}, {"pao_code"}, {"verified_date"}, "record")
DdoTransferentryReportRepo == Paged({"te_id"}, {"ddo_code", "status"}, {"ddo_code"})
PaoSubTransferentryReportRepo(type) ==
  IF type = "1" THEN Paged({"trans_id"}, {"pao_code", "status"}, {})
                ELSE Whole({"trans_id"}, {"pao_code", "status"})
PaoSubTransferentryDetailRepo == Whole({"account_code", "transfer_type"}, {"trans_id"})
ListTransferEntryInterPaoMasterRepo ==
  Paged({"transfer_entry_id"}, {"master_pao_code"}, {"master_pao_code"})
ListTransferEntryInterPaoRepo ==
  Paged({"transfer_entry_id"}, {"pao_code"}, {"master_pao_code"})
InterPaoTransferentryDetailRepo == Whole({"pao_code", "hoa"}, {"transfer_entry_id"})
GetReversiblePfmsTe == Whole({"pfms_unique_id"}, {})

-----------------------------------------------------------------------------
(* What the answers show of those columns.                                   *)

NewGetOfficenameResponse == {"ddo_office_id", "pao_code", "ddo_code"}
NewGetPAOsResponse == {"pao_code", "pao_office_id", "pao_name"}
NewGetDDOsResponse == {"ddo_code", "ddo_office_id"}
NewGetDDOlistResponse == {"ddo_code", "date"}
NewGetDDOdetailResponse == {"ddo_code", "business_date", "hoa", "created_date",
                                    "opening_bal", "closing_bal"}
NewGetPfmspendingResponse == {"pfms_ddo_id", "ddo_code", "business_date"}
NewGetDDOlistMonthlyResponse == {"ddo_code", "period"}
NewGetDDOdetail_monthlyResponse == {"ddo_code", "period", "hoa", "opening_bal", "closing_bal"}
NewGetPfmsxmlResponseByDay == {"pao_code", "business_date"}
NewGetPfmsxmlResponse == {"pao_code", "ddo_code", "business_date", "pfms_unique_id"}
NewGetPfmsxmlteResponse == {"pao_code", "transfer_entry_id", "business_date",
                                    "pfms_unique_id"}
NewGetPraoAccountResponse == {"pao_code", "hoa", "period"}
NewPraoAccountSubStatusResponse == {"pao_code", "period"}
NewPraoAccountSubStatusListResponse == {"pao_code", "pao_name", "period"}
NewFetchPfmsSubmissionPendingResponse == {"pfms_unique_id"}
NewGetInterPAOsResponse == {"pao_code", "pao_office_id", "ddo_code", "ddo_office_id"}
NewSOOfficeDetailsResponse == {"office_id", "ddo_code", "pao_office_id", "pao_code"}
NewGetHoaResponse == {"hoa", "hoa_description"}
NewAccountCodeResponse == {"account_code", "account_code_description"}
NewGetReversionPendingResponse == {"reversion_id", "ddo_code", "business_date",
                                    "original_pfms_uid", "reversal_pfms_uid"}
NewGetReversionRecordsResponse == {"reversion_id", "ddo_code", "business_date",
                                    "original_pfms_uid", "reversal_pfms_uid"}
NewGetDdoPfmsStatusResponse == {"ddo_code", "period"}
NewGetBroadsheetResponse == {"broadsheet_month", "hoa", "ddo_code"}
NewGetAppracctsResponse == {"hoa", "hoa_description"}
NewGetAppraccts2Response == {"hoa", "hoa_description"}
NewGetAppraccts3Response == {"hoapart", "mh", "smh", "minorhead", "subhoa"}
NewGetremunerationdetResponse == {"financial_year", "remuneration_item", "remuneration_type"}
NewRemunerationCreationResponse == {"financial_year", "remuneration_item", "remuneration_type"}
NewTransferentryReportResponse == {"pao_code", "hoa", "transfer_entry_id", "verified_date",
                                    "pfms_unique_id"}
NewDdoTransferentryReportResponse == {"ddo_code", "trans_id", "hoa", "account_code"}
NewPaoSubTransferentryReportResponse == {"pao_code", "ddo_code", "trans_id", "workflow_id"}
NewPaoSubTransferentryDetailResponse == {"trans_id", "hoa", "account_code", "transfer_type"}
NewTransferentryInterPaoReportResponse == {"transfer_entry_id", "master_pao_code"}
NewInterPaoTransferentryDetailResponse == {"transfer_entry_id", "master_pao_code", "pao_code", "hoa"}

-----------------------------------------------------------------------------
(* The handlers: bind the request, read 0 as no limit, query, convert.       *)

FetchOfficenameHandler == Unbound(GetOfficenameRepo, NewGetOfficenameResponse)
ListPAOHandler == Unbound(GetPAOsRepo, NewGetPAOsResponse)
ListDDOHandler(pao) == Listing(GetDDOsRepo(pao), NewGetDDOsResponse)
ListDDOPFMSHandler == Listing(GetDDOlistRepo, NewGetDDOlistResponse)
ListPfmsPendingHandler == Listing(GetPfmspendingRepo, NewGetPfmspendingResponse)
ListDdoPfmsMonthlyHandler == Listing(GetDDOlistMonthlyRepo, NewGetDDOlistMonthlyResponse)
ListDdoPfmsMonthlyOffHandler == Listing(GetDDOlistMonthlyOffRepo, NewGetDDOlistMonthlyResponse)
ListPfmsSubmissionStatusHandler ==
  Listing(GetPfmsSubmissionStatusListRepo, NewGetPfmsxmlResponse)
ListPfmsTESubmissionStatusHandler == Listing(GetPfmsxmlteRepo, NewGetPfmsxmlteResponse)
ListPfmsXmlSubmissionPendingHandler ==
  Unbound(GetPfmsxmlSubmissionStatusRepo, NewFetchPfmsSubmissionPendingResponse)
FetchPraoAccountHandler == Listing(GetPraoAccountRepo, NewGetPraoAccountResponse)
FetchPraoAccountSubStatusHandler ==
  Listing(PraoAccountSubStatusRepo, NewPraoAccountSubStatusResponse)
ListPraoAccountSubStatusHandler ==
  Listing(PraoAccountSubStatusListRepo, NewPraoAccountSubStatusListResponse)
ListInterPAOTEHandler == Unbound(GetInterPAOsRepo, NewGetInterPAOsResponse)
FetchSOOfficeDetailsHandler == Unbound(GetSOOfficeDetailsRepo, NewSOOfficeDetailsResponse)
ListHoaHandler == Unbound(GetHoaonlyRepo, NewGetHoaResponse)
ListAccountCodeHandler == Unbound(GetAccountCodeRepo, NewAccountCodeResponse)
GetCashbookReversionListHandler ==
  Listing(GetCashbookReversionListRepo, NewGetDDOlistResponse)
GetReversionPendingHandler == Unbound(GetReversionPendingRepo, NewGetReversionPendingResponse)
GetReversionRecordsHandler ==
  Listing(GetReversionRecordsMainRepo, NewGetReversionRecordsResponse)
GetAllReversionRecordsHandler ==
  Listing(GetAllReversionRecordsRepo, NewGetReversionRecordsResponse)
ListDdoPfmsStatusHandler == Listing(GetDdoPfmsStatusRepo, NewGetDdoPfmsStatusResponse)
ListBroadsheetHandler(type) == Listing(GetbroadsheetRepo(type), NewGetBroadsheetResponse)
ListApprAcctsHandler == Listing(GetappracctRepo, NewGetAppracctsResponse)
ListApprAcctsTwoHandler == Listing(GetappracctRepo2, NewGetAppraccts2Response)
ListApprAcctsThreeHandler == Listing(GetappracctRepo3, NewGetAppraccts3Response)
ListRemunerationRateDetailHandler(type) ==
  Listing(GetRemRepo(type), NewGetremunerationdetResponse)
ListRemunerationCalculatedYearDetailHandler ==
  Listing(RemunerationCalculatedYearRepo, NewRemunerationCreationResponse)
ListTransferEntryReportHandler ==
  Listing(TransferentryReportRepo, NewTransferentryReportResponse)
ListDdoTransferEntryReportHandler ==
  Listing(DdoTransferentryReportRepo, NewDdoTransferentryReportResponse)
ListPaoSubTransferEntryReportHandler(type) ==
  Listing(PaoSubTransferentryReportRepo(type), NewPaoSubTransferentryReportResponse)
FetchPaoSubTransferentryDetailHandler ==
  Unbound(PaoSubTransferentryDetailRepo, NewPaoSubTransferentryDetailResponse)
ListTransferEntryInterPaoMasterHandler ==
  Listing(ListTransferEntryInterPaoMasterRepo, NewTransferentryInterPaoReportResponse)
ListTransferEntryInterPaoHandler ==
  Listing(ListTransferEntryInterPaoRepo, NewTransferentryInterPaoReportResponse)
FetchInterPaoTransferentryDetailHandler ==
  Unbound(InterPaoTransferentryDetailRepo, NewInterPaoTransferentryDetailResponse)
GetReversiblePfmsTeHandler == Unbound(GetReversiblePfmsTe, {"pfms_unique_id"})

(* The two detail lists fall back on an empty cash book's single line. *)
FetchDDOCashbookHandler(empty) ==
  Listing(IF empty THEN CheckEmptyCashbookRepo ELSE GetDDOdetailRepo, NewGetDDOdetailResponse)
FetchDdoMonthlyDetailHandler(empty) ==
  Listing(IF empty THEN CheckEmptyCashbookMonthlyRepo ELSE GetDDOdetail_monthlyRepo,
          NewGetDDOdetail_monthlyResponse)

Handlers ==
  { FetchOfficenameHandler, ListPAOHandler, ListDDOPFMSHandler, ListPfmsPendingHandler,
    ListDdoPfmsMonthlyHandler, ListDdoPfmsMonthlyOffHandler, ListPfmsSubmissionStatusHandler,
    ListPfmsTESubmissionStatusHandler, ListPfmsXmlSubmissionPendingHandler,
    FetchPraoAccountHandler, FetchPraoAccountSubStatusHandler, ListPraoAccountSubStatusHandler,
    ListInterPAOTEHandler, FetchSOOfficeDetailsHandler, ListHoaHandler, ListAccountCodeHandler,
    GetCashbookReversionListHandler, GetReversionPendingHandler, GetReversionRecordsHandler,
    GetAllReversionRecordsHandler, ListDdoPfmsStatusHandler, ListApprAcctsHandler,
    ListApprAcctsTwoHandler, ListApprAcctsThreeHandler,
    ListRemunerationCalculatedYearDetailHandler, ListTransferEntryReportHandler,
    ListDdoTransferEntryReportHandler, FetchPaoSubTransferentryDetailHandler,
    ListTransferEntryInterPaoMasterHandler, ListTransferEntryInterPaoHandler,
    FetchInterPaoTransferentryDetailHandler, GetReversiblePfmsTeHandler }
  \cup {ListDDOHandler(pao) : pao \in {"000001", "999999"}}
  \cup {ListBroadsheetHandler(type) : type \in 1..5}
  \cup {ListRemunerationRateDetailHandler(type) : type \in 1..3}
  \cup {ListPaoSubTransferEntryReportHandler(type) : type \in {"1", "2"}}
  \cup {FetchDDOCashbookHandler(empty) : empty \in BOOLEAN}
  \cup {FetchDdoMonthlyDetailHandler(empty) : empty \in BOOLEAN}
============================================================================
