----------------------------- MODULE Migrations -----------------------------
(***************************************************************************)
(* The sixty migrations of src/migrations, each with its two directions.   *)
(* The indexes of a table made in the same statement are named with it;    *)
(* where a statement keeps a table that exists, its indexes list their     *)
(* columns, since that table may have others.                              *)
(***************************************************************************)
EXTENDS Schema

\* Rows of investments and transactions credit one operation to two owners.
TwoOwners == Rows("transactions", "operation of two owners")

AddSorobanEscrowFieldsToInvoice1710000000000 == Migration(
      <<AddColumns("invoices", {"soroban_contract_id", "onchain_status", "creation_tx_hash",
            "last_synced_ledger"})>>,
      <<DropColumns("invoices", {"last_synced_ledger", "creation_tx_hash", "onchain_status",
            "soroban_contract_id"})>>)

AddMarketplaceIndexes1711000000000 == Migration(
      <<CreateIndexesIfAbsent("invoices", [
            idx_invoices_status_created_at_desc |-> {"status", "created_at"},
            idx_invoices_status_amount_desc |-> {"status", "amount"}]),
        CreateIndexesIfAbsent("investments", [
            idx_investments_investor_id_status |-> {"investor_id", "status"}])>>,
      <<DropIndexesIfPresent("investments", {"idx_investments_investor_id_status"}),
        DropIndexesIfPresent("invoices", {"idx_invoices_status_amount_desc",
            "idx_invoices_status_created_at_desc"})>>)

AddOptimisticLockVersionColumns1711000000000 == Migration(
      <<AddColumns("invoices", {"version"}), AddColumns("investments", {"version"})>>,
      <<DropColumnsIfPresent("investments", {"version"}),
        DropColumnsIfPresent("invoices", {"version"})>>)

AddMarketplaceIndexes1711100000000 == Migration(
      <<CreateIndexesIfAbsent("invoices", [
            IDX_INVOICES_STATUS_CREATED_AT_DESC |-> {"status", "created_at"},
            IDX_INVOICES_STATUS_AMOUNT_DESC |-> {"status", "amount"}]),
        CreateIndexesIfAbsent("investments", [
            IDX_INVESTMENTS_INVESTOR_ID_STATUS |-> {"investor_id", "status"}])>>,
      <<DropIndexesIfPresent("investments", {"IDX_INVESTMENTS_INVESTOR_ID_STATUS"}),
        DropIndexesIfPresent("invoices", {"IDX_INVOICES_STATUS_AMOUNT_DESC",
            "IDX_INVOICES_STATUS_CREATED_AT_DESC"})>>)

CreateWebhookSubscriptionsTable1712000000000 == Migration(
      <<CreateTable("webhook_subscriptions", {"id", "user_id", "url", "secret", "event_types",
            "active", "created_at", "updated_at"}, {}, {"idx_webhook_subscriptions_user_id"}),
        AddForeignKey("webhook_subscriptions", "FK_webhook_subscriptions_user", "users")>>,
      <<DropConstraint("webhook_subscriptions", "FK_webhook_subscriptions_user"),
        DropIndexes("webhook_subscriptions", {"idx_webhook_subscriptions_user_id"}),
        DropTable("webhook_subscriptions")>>)

CreateSorobanEventLogsTable1713000000000 == Migration(
      <<CreateTable("soroban_event_logs", {"id", "contract_id", "ledger_sequence", "topic",
            "tx_hash", "payload", "processed", "created_at"},
            {}, {"idx_soroban_event_logs_processed"})>>,
      <<DropIndexes("soroban_event_logs", {"idx_soroban_event_logs_processed"}),
        DropTable("soroban_event_logs")>>)

AddSorobanEventLogsIndex1714000000000 == Migration(
      <<CreateIndexes("soroban_event_logs", [
            IDX_SOROBAN_EVENTS_CONTRACT_LEDGER |-> {"contract_id", "ledger_sequence"}])>>,
      <<DropIndexes("soroban_event_logs", {"IDX_SOROBAN_EVENTS_CONTRACT_LEDGER"})>>)

InitialSchema1731513600000 == Migration(
      <<CreateType("users_usertype_enum", {"seller", "investor", "both"}),
        CreateType("users_kycstatus_enum", {"pending", "in_review", "approved", "rejected"}),
        CreateType("invoices_invoicestatus_enum", {"draft", "pending", "published", "funded",
            "settled", "cancelled", "rejected"}),
        CreateType("investments_investmentstatus_enum", {"pending", "confirmed", "settled",
            "cancelled"}),
        CreateType("transactions_transactiontype_enum", {"investment", "payment", "withdrawal",
            "refund"}),
        CreateType("transactions_transactionstatus_enum", {"pending", "completed", "failed"}),
        CreateType("kyc_verifications_verificationtype_enum", {"identity", "address", "business"}),
        CreateType("notifications_notificationtype_enum", {"invoice", "investment", "payment",
            "kyc", "system"}),
        EnsureTable("users", {"id", "stellarAddress", "email", "userType", "kycStatus",
            "is_kyc_verified", "created_at", "updated_at", "deleted_at"},
            {"users_usertype_enum", "users_kycstatus_enum"}, {"idx_users_stellar_address",
            "idx_users_user_type", "idx_users_kyc_status", "idx_users_email",
            "idx_users_user_type_kyc_status"}),
        EnsureTable("invoices", {"id", "seller_id", "invoice_number", "customer_name", "amount",
            "discount_rate", "net_amount", "due_date", "ipfs_hash", "risk_score", "status",
            "smart_contract_id", "rejection_reason", "created_at", "updated_at", "deleted_at"},
            {"invoices_invoicestatus_enum", "users"}, {"idx_invoices_seller_id",
            "idx_invoices_invoice_number", "idx_invoices_customer_name",
            "idx_invoices_due_date", "idx_invoices_status",
            "idx_invoices_seller_status_created", "idx_invoices_status_due_date",
            "idx_invoices_status_created_at", "idx_invoices_status_amount"}),
        EnsureTable("investments", {"id", "invoice_id", "investor_id", "investment_amount",
            "expected_return", "actual_return", "status", "transaction_hash",
            "stellar_operation_index", "created_at", "updated_at", "deleted_at"},
            {"investments_investmentstatus_enum", "invoices", "users"}, {
            "idx_investments_invoice_id", "idx_investments_investor_id",
            "idx_investments_status", "idx_investments_investor_status"}),
        EnsureTable("transactions", {"id", "user_id", "investment_id", "invoice_id", "type",
            "amount", "stellar_tx_hash", "stellar_operation_index", "status", "timestamp"},
            {"transactions_transactiontype_enum", "transactions_transactionstatus_enum", "users",
            "investments", "invoices"}, {
            "idx_transactions_user_id", "idx_transactions_investment_id",
            "idx_transactions_invoice_id", "idx_transactions_type", "idx_transactions_status",
            "idx_transactions_user_type_status"}),
        EnsureTable("kyc_verifications", {"id", "user_id", "verification_type", "status",
            "documents", "verified_at", "created_at", "updated_at", "deleted_at"},
            {"kyc_verifications_verificationtype_enum", "users_kycstatus_enum", "users"}, {
            "idx_kyc_verifications_user_id", "idx_kyc_verifications_type",
            "idx_kyc_verifications_status"}),
        EnsureTable("notifications", {"id", "user_id", "type", "title", "message", "read",
            "timestamp", "created_at", "updated_at", "deleted_at"},
            {"notifications_notificationtype_enum", "users"}, {"idx_notifications_user_id",
            "idx_notifications_type", "idx_notifications_user_read"})>>,
      <<DropTableCascading("notifications"), DropTableCascading("kyc_verifications"),
        DropTableCascading("transactions"), DropTableCascading("investments"),
        DropTableCascading("invoices"), DropTableCascading("users"),
        DropTypeCascading("notifications_notificationtype_enum"),
        DropTypeCascading("kyc_verifications_verificationtype_enum"),
        DropTypeCascading("transactions_transactionstatus_enum"),
        DropTypeCascading("transactions_transactiontype_enum"),
        DropTypeCascading("investments_investmentstatus_enum"),
        DropTypeCascading("invoices_invoicestatus_enum"),
        DropTypeCascading("users_kycstatus_enum"), DropTypeCascading("users_usertype_enum")>>)

AddAuthChallenges1731600000000 == Migration(
      <<CreateTable("auth_challenges", {"id", "stellar_address", "nonce_hash", "message",
            "network", "issued_at", "expires_at", "consumed_at", "created_at"},
            {}, {"idx_auth_challenges_address_nonce", "idx_auth_challenges_stellar_address",
            "idx_auth_challenges_expires_at"})>>,
      <<DropIndexes("auth_challenges", {"idx_auth_challenges_expires_at",
            "idx_auth_challenges_stellar_address", "idx_auth_challenges_address_nonce"}),
        DropTable("auth_challenges")>>)

AddInvestmentPaymentVerification1731700000000 == Migration(
      <<AddColumns("investments", {"stellar_operation_index"}),
        AddColumns("transactions", {"investment_id", "stellar_operation_index"}),
        CreateIndexes("transactions", [idx_transactions_investment_id |-> {"investment_id"}]),
        AddForeignKey("transactions", "FK_transactions_investment", "investments")>>,
      <<DropConstraint("transactions", "FK_transactions_investment"),
        DropIndexes("transactions", {"idx_transactions_investment_id"}),
        DropColumns("transactions", {"stellar_operation_index", "investment_id"}),
        DropColumns("investments", {"stellar_operation_index"})>>)

AddTransactionInvoiceAndInvestmentLinks1731800000000 == Migration(
      <<AddColumnsIfAbsent("transactions", {"invoice_id", "investment_id"}),
        CreateIndexesIfAbsent("transactions", [idx_transactions_invoice_id |-> {"invoice_id"},
            idx_transactions_investment_id |-> {"investment_id"}]),
        AddForeignKeyIfAbsent("transactions", "FK_transactions_invoice", "invoices"),
        AddForeignKeyIfAbsent("transactions", "FK_transactions_investment", "investments")>>,
      <<DropConstraintIfPresent("transactions", "FK_transactions_invoice"),
        DropIndexesIfPresent("transactions", {"idx_transactions_invoice_id"}),
        DropColumnsIfPresent("transactions", {"invoice_id"})>>)

AddInvoiceDocuments1731900000000 == Migration(
      <<CreateTable("invoice_documents", {"id", "invoice_id", "cid", "doc_type", "filename",
            "mime_type", "file_size", "created_at"},
            {"invoices"}, {"idx_invoice_documents_invoice_id"})>>,
      <<DropIndexes("invoice_documents", {"idx_invoice_documents_invoice_id"}),
        DropTable("invoice_documents")>>)

AddUserKycVerifiedFlag1731900000001 == Migration(
      <<AddColumns("users", {"is_kyc_verified"}),
        Update("users", {"is_kyc_verified", "kycStatus"})>>,
      <<DropColumns("users", {"is_kyc_verified"})>>)

AddAutoInvest1731910000000 == Migration(
      <<AddColumns("invoices", {"category"}),
        CreateIndexes("invoices", [idx_invoices_category |-> {"category"}]),
        CreateType("auto_invest_rules_risktier_enum", {"low", "medium", "high"}),
        CreateTable("auto_invest_rules", {"id", "investor_id", "category", "min_yield",
            "max_face_value", "risk_tier", "max_per_invoice", "min_wallet_balance", "enabled",
            "created_at", "updated_at"},
            {"auto_invest_rules_risktier_enum", "users"}, {"idx_auto_invest_rules_investor_id",
            "idx_auto_invest_rules_enabled"}),
        CreateType("auto_invest_executions_status_enum", {"executed",
            "skipped_insufficient_balance", "failed"}),
        CreateTable("auto_invest_executions", {"id", "rule_id", "investor_id", "invoice_id",
            "investment_id", "amount", "status", "reason", "executed_at"},
            {"auto_invest_executions_status_enum", "auto_invest_rules", "invoices"}, {
            "idx_auto_invest_executions_rule_id", "idx_auto_invest_executions_investor_id",
            "idx_auto_invest_executions_invoice_id", "idx_auto_invest_executions_status"})>>,
      <<DropTable("auto_invest_executions"), DropType("auto_invest_executions_status_enum"),
        DropTable("auto_invest_rules"), DropType("auto_invest_rules_risktier_enum"),
        DropIndexes("invoices", {"idx_invoices_category"}),
        DropColumns("invoices", {"category"})>>)

AddContractEventIndexers1732000000000 == Migration(
      <<CreateTable("sector_benchmarks", {"id", "sector", "avg_yield", "avg_days_to_settle",
            "default_rate", "sample_count", "last_event_id", "created_at", "updated_at"},
            {}, {"idx_sector_benchmarks_sector"}),
        CreateType("referral_tiers_tier_enum", {"standard", "bronze", "silver", "gold"}),
        CreateTable("referral_tiers", {"id", "wallet", "tier", "commission_rate_bps",
            "cumulative_referred_volume", "last_event_id", "upgraded_at", "created_at"},
            {"referral_tiers_tier_enum"}, {"idx_referral_tiers_wallet"}),
        CreateTable("referral_tier_history", {"id", "wallet", "tier", "commission_rate_bps",
            "cumulative_referred_volume", "last_event_id", "upgraded_at", "created_at"},
            {"referral_tiers_tier_enum"}, {"idx_referral_tier_history_wallet"}),
        CreateType("yield_boosts_tier_enum", {"bronze", "silver", "gold", "platinum"}),
        CreateTable("yield_boosts", {"id", "invoice_id", "wallet", "tier", "boost_bps",
            "last_event_id", "applied_at", "created_at"},
            {"yield_boosts_tier_enum"}, {"idx_yield_boosts_invoice_id", "idx_yield_boosts_wallet"}),
        CreateType("secondary_auctions_status_enum", {"active", "settled", "cancelled"}),
        CreateTable("secondary_auctions", {"id", "auction_id", "seller", "invoice_id", "status",
            "highest_bid", "highest_bidder", "reserve_price", "bid_count", "starts_at", "ends_at",
            "settled_at", "winner", "settlement_amount", "created_event_id", "created_at",
            "updated_at"},
            {"secondary_auctions_status_enum"}, {"idx_secondary_auctions_auction_id",
            "idx_secondary_auctions_seller", "idx_secondary_auctions_invoice_id",
            "idx_secondary_auctions_status", "idx_secondary_auctions_ends_at"}),
        CreateTable("secondary_bids", {"id", "auction_id", "bidder", "amount", "event_id",
            "placed_at", "created_at"},
            {}, {"idx_secondary_bids_auction_id", "idx_secondary_bids_bidder",
            "idx_secondary_bids_event_id"})>>,
      <<DropTable("secondary_bids"), DropTable("secondary_auctions"),
        DropType("secondary_auctions_status_enum"), DropTable("yield_boosts"),
        DropType("yield_boosts_tier_enum"), DropTable("referral_tier_history"),
        DropTable("referral_tiers"), DropType("referral_tiers_tier_enum"),
        DropTable("sector_benchmarks")>>)

AddInvoiceRejection1732000000000 == WithoutTransaction(
      <<AddValue("invoices_invoicestatus_enum", "rejected"),
        AddColumnsIfAbsent("invoices", {"rejection_reason"})>>,
      <<DropColumnsIfPresent("invoices", {"rejection_reason"})>>)

CreateWebhookDeliveryLogsTable1732100000000 == Migration(
      <<CreateTable("webhook_delivery_logs", {"id", "subscription_id", "event_type", "attempt",
            "response_status", "delivered", "error_message", "created_at"},
            {"webhook_subscriptions"}, {"idx_webhook_delivery_logs_subscription_id"})>>,
      <<DropIndexes("webhook_delivery_logs", {"idx_webhook_delivery_logs_subscription_id"}),
        DropTable("webhook_delivery_logs")>>)

AddInvestorOnboardingAlertAndYieldData1732200000000 == Migration(
      <<CreateTable("soroban_indexer_checkpoints", {"indexer_id", "ledger_sequence", "updated_at"},
            {}, {}),
        AddColumns("soroban_event_logs", {"event_id"}),
        CreateIndexes("soroban_event_logs", [idx_soroban_event_logs_event_id |-> {"event_id"}]),
        CreateTable("onboarding_bonuses", {"id", "wallet", "bonus_amount", "invoice_id",
            "claimed_at", "event_id"}, {}, {"idx_onboarding_bonuses_wallet"}),
        CreateTable("alert_preferences", {"id", "wallet", "settlement_enabled",
            "kyc_expiry_enabled", "watchlist_change_enabled", "auto_invest_enabled",
            "maturity_enabled", "event_id", "updated_at"}, {}, {"idx_alert_preferences_wallet"}),
        CreateTable("yield_adjustments", {"id", "invoice_id", "settlement_event_id",
            "adjustment_bps", "basis_rating", "adjusted_yield", "settled_at", "transaction_hash",
            "created_at"}, {}, {"idx_yield_adjustments_invoice_settled"})>>,
      <<DropTable("yield_adjustments"), DropTable("alert_preferences"),
        DropTable("onboarding_bonuses"),
        DropIndexes("soroban_event_logs", {"idx_soroban_event_logs_event_id"}),
        DropColumns("soroban_event_logs", {"event_id"}),
        DropTable("soroban_indexer_checkpoints")>>)

AddWebhookDeliveryEventId1732200000000 == Migration(
      <<AddColumns("webhook_delivery_logs", {"event_id"}),
        CreateIndexes("webhook_delivery_logs", [
            idx_webhook_delivery_logs_event_id |-> {"event_id"}])>>,
      <<DropIndexes("webhook_delivery_logs", {"idx_webhook_delivery_logs_event_id"}),
        DropColumns("webhook_delivery_logs", {"event_id"})>>)

AddUserAndTransactionPerformanceIndexes1732300000000 == Migration(
      <<CreateIndexesIfAbsent("users", [
            idx_users_user_type_kyc_status |-> {"userType", "kycStatus"}]),
        CreateIndexesIfAbsent("transactions", [
            idx_transactions_status_type_timestamp |-> {"status", "type", "timestamp"},
            idx_transactions_stellar_tx_hash |-> {"stellar_tx_hash"},
            idx_transactions_user_id_timestamp |-> {"user_id", "timestamp"}])>>,
      <<DropIndexesIfPresent("transactions", {"idx_transactions_user_id_timestamp",
            "idx_transactions_stellar_tx_hash", "idx_transactions_status_type_timestamp"}),
        DropIndexesIfPresent("users", {"idx_users_user_type_kyc_status"})>>)

CreateEventTables1732400000000 == Migration(
      <<CreateTableIfAbsent("kyc_events", {"id", "wallet_address", "user_id", "type", "title",
            "message", "read", "created_at"}, {}),
        CreateIndexesIfAbsent("kyc_events", [idx_kyc_events_wallet |-> {"wallet_address"},
            idx_kyc_events_user_id |-> {"user_id"}]),
        CreateTableIfAbsent("investment_events", {"id", "wallet_address", "user_id", "type",
            "title", "message", "read", "created_at"}, {}),
        CreateIndexesIfAbsent("investment_events", [
            idx_investment_events_wallet |-> {"wallet_address"},
            idx_investment_events_user_id |-> {"user_id"}]),
        CreateTableIfAbsent("settlement_events", {"id", "wallet_address", "user_id", "type",
            "title", "message", "read", "created_at"}, {}),
        CreateIndexesIfAbsent("settlement_events", [
            idx_settlement_events_wallet |-> {"wallet_address"},
            idx_settlement_events_user_id |-> {"user_id"}])>>,
      <<DropTableIfPresent("settlement_events"), DropTableIfPresent("investment_events"),
        DropTableIfPresent("kyc_events")>>)

CreateInvoiceStatusHistory1732400000000 == Migration(
      <<CreateTableIfAbsent("invoice_status_history", {"id", "invoice_id", "from_status",
            "to_status", "actor_role", "actor_id", "trigger", "reason", "created_at"},
            {"invoices"}),
        CreateIndexesIfAbsent("invoice_status_history", [
            idx_invoice_status_history_invoice_created |-> {"invoice_id", "created_at"}])>>,
      <<DropIndexesIfPresent("invoice_status_history", {
            "idx_invoice_status_history_invoice_created"}),
        DropTableIfPresent("invoice_status_history")>>)

AddInvoiceLifecycleNotificationTypes1732500000000 == WithoutTransaction(
      <<AddValue("notifications_notificationtype_enum", "invoice_rejected"),
        AddValue("notifications_notificationtype_enum", "invoice_funded"),
        AddValue("notifications_notificationtype_enum", "invoice_settled"),
        AddValue("notifications_notificationtype_enum", "investment_created")>>,
      <<>>)

AddInvoiceFundedAmountAndInvestmentBlock1732600000000 == Migration(
      <<AddColumnsIfAbsent("invoices", {"funded_amount"}),
        Update("investments", {"investment_amount", "invoice_id", "status", "deleted_at"}),
        Update("invoices", {"funded_amount", "id"}),
        AddConstraint("invoices", "chk_invoices_funded_amount_within_net",
            Columns("invoices", {"funded_amount", "net_amount"})),
        AddColumnsIfAbsent("investments", {"investor_wallet", "funding_block"}),
        CreateIndexesIfAbsent("investments", [
            uq_investments_invoice_wallet_block |->
                {"invoice_id", "investor_wallet", "funding_block"}])>>,
      <<DropIndexesIfPresent("investments", {"uq_investments_invoice_wallet_block"}),
        DropColumnsIfPresent("investments", {"funding_block", "investor_wallet"}),
        DropConstraintIfPresent("invoices", "chk_invoices_funded_amount_within_net"),
        DropColumnsIfPresent("invoices", {"funded_amount"})>>)

AddInvoiceCursorPaginationIndex1732700000000 == Migration(
      <<CreateIndexesIfAbsent("invoices", [
            idx_invoices_seller_created_at |-> {"seller_id", "created_at", "id"},
            idx_invoices_seller_status_created_at |-> {"seller_id", "status", "created_at", "id"}])>>,
      <<DropIndexesIfPresent("invoices", {"idx_invoices_seller_status_created_at",
            "idx_invoices_seller_created_at"})>>)

AddInvoiceFailedStatus1732700000000 == WithoutTransaction(
      <<AddValue("invoices_invoicestatus_enum", "failed")>>,
      <<>>)

AddKycVerificationWallet1732700000000 == Migration(
      <<AddColumns("kyc_verifications", {"wallet"}),
        CreateIndexes("kyc_verifications", [idx_kyc_verifications_wallet |-> {"wallet"}])>>,
      <<DropIndexes("kyc_verifications", {"idx_kyc_verifications_wallet"}),
        DropColumns("kyc_verifications", {"wallet"})>>)

CreateInvestorReturnsAndSettlementRemainder1732700000000 == Migration(
      <<CreateTableIfAbsent("investor_returns", {"id", "invoice_id", "investment_id",
            "investor_id", "return_amount", "amount", "created_at", "updated_at"},
            {"invoices", "investments", "users"}),
        CreateIndexesIfAbsent("investor_returns", [
            idx_investor_returns_invoice_id |-> {"invoice_id"},
            idx_investor_returns_investment_id |-> {"investment_id"},
            idx_investor_returns_investor_id |-> {"investor_id"}]),
        AddColumnsIfAbsent("invoices", {"settlement_remainder"}),
        CreateTableIfAbsent("settlement_remainders", {"id", "invoice_id", "remainder_amount",
            "total_settlement_amount", "total_distributed_amount", "created_at"}, {"invoices"}),
        CreateIndexesIfAbsent("settlement_remainders", [
            idx_settlement_remainders_invoice_id |-> {"invoice_id"}])>>,
      <<DropIndexesIfPresent("settlement_remainders", {"idx_settlement_remainders_invoice_id"}),
        DropTableIfPresent("settlement_remainders"),
        DropColumnsIfPresent("invoices", {"settlement_remainder"}),
        DropIndexesIfPresent("investor_returns", {"idx_investor_returns_investor_id",
            "idx_investor_returns_investment_id", "idx_investor_returns_invoice_id"}),
        DropTableIfPresent("investor_returns")>>)

AddInvestorAckAndExtensionRequests1732800000000 == Migration(
      <<CreateTableIfAbsent("investor_acknowledgements", {"id", "wallet_address", "user_id",
            "terms_version", "acknowledged_at", "created_at"}, {}),
        CreateIndexesIfAbsent("investor_acknowledgements", [
            idx_investor_ack_wallet_created |-> {"wallet_address", "created_at"},
            idx_investor_ack_wallet_version |-> {"wallet_address", "terms_version"}]),
        CreateTypeIfAbsent("extension_request_status_enum", {"pending", "approved", "rejected"}),
        CreateTableIfAbsent("invoice_extension_requests", {"id", "invoice_id", "requested_by",
            "proposed_deadline", "previous_deadline", "reason", "status", "reviewed_by",
            "reviewed_at", "review_note", "created_at", "updated_at"},
            {"extension_request_status_enum", "invoices"}),
        CreateIndexesIfAbsent("invoice_extension_requests", [
            idx_extension_requests_invoice_status |-> {"invoice_id", "status"}])>>,
      <<DropIndexesIfPresent("invoice_extension_requests", {
            "idx_extension_requests_invoice_status"}),
        DropTableIfPresent("invoice_extension_requests"),
        DropTypeIfPresent("extension_request_status_enum"),
        DropIndexesIfPresent("investor_acknowledgements", {"idx_investor_ack_wallet_version",
            "idx_investor_ack_wallet_created"}),
        DropTableIfPresent("investor_acknowledgements")>>)

AddSorobanIndexerCheckpoint1732800000000 == Migration(
      <<AddColumns("soroban_event_logs", {"event_id"}),
        CreateIndexes("soroban_event_logs", [
            uq_soroban_event_logs_contract_event |-> {"contract_id", "event_id"}]),
        CreateTable("soroban_indexer_checkpoints", {"checkpoint_key", "ledger_sequence",
            "updated_at"}, {}, {})>>,
      <<DropTable("soroban_indexer_checkpoints"),
        DropIndexes("soroban_event_logs", {"uq_soroban_event_logs_contract_event"}),
        DropColumns("soroban_event_logs", {"event_id"})>>)

AddUserAdminManagement1732800000000 == WithoutTransaction(
      <<AddValue("users_usertype_enum", "admin"),
        AddColumnsIfAbsent("users", {"is_suspended", "suspended_at", "suspension_reason"}),
        CreateTableIfAbsent("user_audit_logs", {"id", "target_user_id", "actor_user_id", "action",
            "previous_value", "new_value", "reason", "created_at"}, {}),
        CreateIndexesIfAbsent("user_audit_logs", [
            idx_user_audit_logs_target_created |-> {"target_user_id", "created_at"}])>>,
      <<DropIndexesIfPresent("user_audit_logs", {"idx_user_audit_logs_target_created"}),
        DropTableIfPresent("user_audit_logs"),
        DropColumnsIfPresent("users", {"suspension_reason", "suspended_at", "is_suspended"})>>)

CreateCreatorKeysTable1732800000000 == Migration(
      <<CreateTableIfAbsent("creator_keys", {"id", "creator_id", "creator_wallet",
            "contract_address", "max_buy_per_tx", "max_buy_per_day", "current_supply",
            "curve_type", "config_version", "is_active", "created_at", "updated_at"}, {}),
        CreateIndexesIfAbsent("creator_keys", [
            idx_creator_keys_contract_address |-> {"contract_address"},
            idx_creator_keys_creator_id |-> {"creator_id"}])>>,
      <<DropIndexesIfPresent("creator_keys", {"idx_creator_keys_creator_id",
            "idx_creator_keys_contract_address"}),
        DropTableIfPresent("creator_keys")>>)

AddInsuranceExtensionRegistryBlacklistTables1732900000000 == Migration(
      <<CreateTableIfAbsent("invoice_insurance", {"id", "invoice_id", "wallet", "is_active",
            "coverage_bps", "premium_paid", "expiry", "purchased_at", "created_at"}, {}),
        CreateTableIfAbsent("insurance_payouts", {"id", "invoice_id", "wallet", "amount",
            "trigger_date", "tx_hash", "created_at"}, {}),
        CreateTableIfAbsent("extension_proposals", {"id", "invoice_id", "proposed_by",
            "new_deadline", "status", "votes_for", "votes_against", "quorum_bps", "eta",
            "created_at"}, {}),
        CreateTableIfAbsent("extension_votes", {"id", "invoice_id", "wallet", "vote", "weight",
            "voted_at"}, {}),
        CreateTableIfAbsent("contract_registry", {"name", "version", "address", "last_upgraded",
            "registered_at"}, {}),
        CreateTableIfAbsent("contract_version_history", {"id", "contract_name", "version",
            "address", "upgraded_at", "upgraded_by"}, {}),
        CreateTableIfAbsent("issuer_blacklist", {"wallet", "is_blacklisted", "reason",
            "blacklisted_at", "restored_at"}, {}),
        CreateIndexesIfAbsent("invoice_insurance", [idx_insurance_wallet |-> {"wallet"},
            idx_insurance_invoice |-> {"invoice_id"}]),
        CreateIndexesIfAbsent("insurance_payouts", [idx_payouts_wallet |-> {"wallet"}]),
        CreateIndexesIfAbsent("extension_proposals", [idx_extension_invoice |-> {"invoice_id"}]),
        CreateIndexesIfAbsent("extension_votes", [idx_extension_votes_invoice |-> {"invoice_id"}]),
        CreateIndexesIfAbsent("contract_version_history", [
            idx_contract_history_name |-> {"contract_name"}])>>,
      <<DropTableIfPresent("issuer_blacklist"), DropTableIfPresent("contract_version_history"),
        DropTableIfPresent("contract_registry"), DropTableIfPresent("extension_votes"),
        DropTableIfPresent("extension_proposals"), DropTableIfPresent("insurance_payouts"),
        DropTableIfPresent("invoice_insurance")>>)

AddNotificationDispatchDedupe1732900000000 == WithoutTransaction(
      <<AddValue("notifications_notificationtype_enum", "invoice_approved"),
        AddValue("notifications_notificationtype_enum", "invoice_deadline_extended"),
        AddValue("notifications_notificationtype_enum", "invoice_matured"),
        AddColumnsIfAbsent("notifications", {"dedupe_key"}),
        CreateIndexesIfAbsent("notifications", [uq_notifications_dedupe_key |-> {"dedupe_key"}])>>,
      <<DropIndexesIfPresent("notifications", {"uq_notifications_dedupe_key"}),
        DropColumnsIfPresent("notifications", {"dedupe_key"})>>)

CreateContractAclTables1732900000000 == Migration(
      <<CreateTableIfAbsent("contract_acls", {"id", "contract_address", "permitted_functions",
            "status", "added_at", "removed_at", "last_ledger", "last_tx_hash", "created_at",
            "updated_at"}, {}),
        CreateIndexesIfAbsent("contract_acls", [
            idx_contract_acls_contract_address |-> {"contract_address"}]),
        CreateTableIfAbsent("contract_acl_logs", {"id", "contract_address", "action",
            "permitted_functions", "ledger_sequence", "tx_hash", "actor", "created_at"}, {}),
        CreateIndexesIfAbsent("contract_acl_logs", [
            idx_contract_acl_logs_contract_address |-> {"contract_address"},
            idx_contract_acl_logs_created_at |-> {"created_at"}])>>,
      <<DropIndexesIfPresent("contract_acl_logs", {"idx_contract_acl_logs_created_at",
            "idx_contract_acl_logs_contract_address"}),
        DropTableIfPresent("contract_acl_logs"),
        DropIndexesIfPresent("contract_acls", {"idx_contract_acls_contract_address"}),
        DropTableIfPresent("contract_acls")>>)

AddInvoiceFullTextSearch1733000000000 == Migration(
      <<AddColumnsIfAbsent("invoices", {"issuer_name", "description"}),
        Update("invoices", {"issuer_name", "description"}),
        AddColumnsIfAbsent("invoices", {"search_vector"}),
        CreateIndexesIfAbsent("invoices", [idx_invoices_search_vector |-> {"search_vector"}])>>,
      <<DropIndexesIfPresent("invoices", {"idx_invoices_search_vector"}),
        DropColumnsIfPresent("invoices", {"search_vector", "description", "issuer_name"})>>)

CreateCurveMigrationsTable1733000000000 == Migration(
      <<CreateTableIfAbsent("curve_migrations", {"id", "key_id", "proposal_id", "contract_address",
            "status", "proposed_params", "applied_params", "timelock_expiry", "proposed_at",
            "executed_at", "proposal_tx_hash", "execution_tx_hash", "ledger_sequence",
            "created_at", "updated_at"}, {"creator_keys"}),
        CreateIndexesIfAbsent("curve_migrations", [
            idx_curve_migrations_proposal_id |-> {"proposal_id"},
            idx_curve_migrations_key_id |-> {"key_id"},
            idx_curve_migrations_status |-> {"key_id", "status"}])>>,
      <<DropIndexesIfPresent("curve_migrations", {"idx_curve_migrations_status",
            "idx_curve_migrations_key_id", "idx_curve_migrations_proposal_id"}),
        DropTableIfPresent("curve_migrations")>>)

CreateAtomicSwapsTable1733100000000 == Migration(
      <<CreateTableIfAbsent("atomic_swaps", {"id", "swap_id", "buyer_address", "seller_address",
            "buyer_invoice_id", "seller_invoice_id", "buyer_amount", "seller_amount", "fee_amount",
            "fee_recipient", "tx_hash", "ledger_sequence", "executed_at", "created_at"}, {}),
        CreateIndexesIfAbsent("atomic_swaps", [idx_atomic_swaps_swap_id |-> {"swap_id"},
            idx_atomic_swaps_buyer_address |-> {"buyer_address"},
            idx_atomic_swaps_seller_address |-> {"seller_address"},
            idx_atomic_swaps_buyer_created |-> {"buyer_address", "executed_at", "id"},
            idx_atomic_swaps_seller_created |-> {"seller_address", "executed_at", "id"}])>>,
      <<DropIndexesIfPresent("atomic_swaps", {"idx_atomic_swaps_seller_created",
            "idx_atomic_swaps_buyer_created", "idx_atomic_swaps_seller_address",
            "idx_atomic_swaps_buyer_address", "idx_atomic_swaps_swap_id"}),
        DropTableIfPresent("atomic_swaps")>>)

CreateInvestorPayoutsTable1737500000000 == Migration(
      <<CreateTableIfAbsent("investor_payouts", {"id", "invoice_id", "investor_id",
            "investment_id", "amount", "stellar_tx_hash", "status", "failure_reason", "created_at",
            "updated_at", "deleted_at", "version"}, {}),
        CreateIndexes("investor_payouts", [idx_investor_payouts_invoice_id |-> {"invoice_id"},
            idx_investor_payouts_investor_id |-> {"investor_id"},
            idx_investor_payouts_investment_id |-> {"investment_id"},
            idx_investor_payouts_status |-> {"status"}]),
        AddForeignKey("investor_payouts", "fk_investor_payouts_invoice_id", "invoices"),
        AddForeignKey("investor_payouts", "fk_investor_payouts_investor_id", "users"),
        AddForeignKey("investor_payouts", "fk_investor_payouts_investment_id", "investments")>>,
      <<DropTable("investor_payouts")>>)

CreateCreatorKeysAndRatingsLeaderboard1740000000000 == Migration(
      <<CreateTableIfAbsent("creator_keys", {"id", "key_address", "creator_wallet", "name",
            "description", "image_url", "rating_count", "rating_sum", "average_rating",
            "created_at", "updated_at"}, {}),
        CreateIndexesIfAbsent("creator_keys", [idx_creator_keys_key_address |-> {"key_address"},
            idx_creator_keys_creator_wallet |-> {"creator_wallet"},
            idx_creator_keys_average_rating |-> {"average_rating"},
            idx_creator_keys_rating_count |-> {"rating_count"}])>>,
      <<DropIndexesIfPresent("creator_keys", {"idx_creator_keys_rating_count",
            "idx_creator_keys_average_rating", "idx_creator_keys_creator_wallet",
            "idx_creator_keys_key_address"}),
        DropTableIfPresent("creator_keys")>>)

CreateRoyaltyEvents1740000000001 == Migration(
      <<CreateTableIfAbsent("royalty_events", {"id", "key_address", "creator_wallet",
            "buyer_wallet", "amount", "tx_hash", "ledger_sequence", "paid_at", "created_at"},
            {}),
        CreateIndexesIfAbsent("royalty_events", [
            idx_royalty_events_creator_wallet |-> {"creator_wallet"},
            idx_royalty_events_key_address |-> {"key_address"},
            idx_royalty_events_paid_at |-> {"paid_at"}, idx_royalty_events_tx_hash |-> {"tx_hash"}])>>,
      <<DropIndexesIfPresent("royalty_events", {"idx_royalty_events_tx_hash",
            "idx_royalty_events_paid_at", "idx_royalty_events_key_address",
            "idx_royalty_events_creator_wallet"}),
        DropTableIfPresent("royalty_events")>>)

CreateDividendTables1740000000002 == Migration(
      <<CreateTableIfAbsent("dividend_cycle_configs", {"id", "issuer_wallet", "frequency",
            "next_distribution_at", "last_distribution_at", "created_at", "updated_at"}, {}),
        CreateIndexesIfAbsent("dividend_cycle_configs", [
            idx_dividend_cycle_configs_issuer_wallet |-> {"issuer_wallet"}]),
        CreateTableIfAbsent("dividend_distributions", {"id", "issuer_wallet", "total_amount",
            "recipient_count", "trigger", "tx_hash", "cycle_frequency", "status", "distributed_at",
            "created_at"}, {}),
        CreateIndexesIfAbsent("dividend_distributions", [
            idx_dividend_distributions_issuer_wallet |-> {"issuer_wallet"},
            idx_dividend_distributions_distributed_at |-> {"distributed_at"}])>>,
      <<DropIndexesIfPresent("dividend_distributions", {
            "idx_dividend_distributions_distributed_at",
            "idx_dividend_distributions_issuer_wallet"}),
        DropTableIfPresent("dividend_distributions"),
        DropIndexesIfPresent("dividend_cycle_configs", {"idx_dividend_cycle_configs_issuer_wallet"}),
        DropTableIfPresent("dividend_cycle_configs")>>)

CreateAnalyticsSnapshots1740000000003 == Migration(
      <<CreateTableIfAbsent("analytics_snapshots", {"id", "snapshot_date", "total_invoices_draft",
            "total_invoices_pending", "total_invoices_published", "total_invoices_funded",
            "total_invoices_settled", "total_invoices_cancelled", "total_invoices_rejected",
            "total_invoices", "daily_funding_volume", "cumulative_funding_volume",
            "active_investor_count", "settlement_rate", "created_at"}, {}),
        CreateIndexesIfAbsent("analytics_snapshots", [
            idx_analytics_snapshots_date |-> {"snapshot_date"}])>>,
      <<DropIndexesIfPresent("analytics_snapshots", {"idx_analytics_snapshots_date"}),
        DropTableIfPresent("analytics_snapshots")>>)

CreateRoyaltyClaims1740000000004 == Migration(
      <<CreateTableIfAbsent("royalty_claims", {"id", "claim_id", "key_address", "creator_wallet",
            "amount", "tx_hash", "ledger_sequence", "claimed_at", "created_at"}, {}),
        CreateIndexesIfAbsent("royalty_claims", [idx_royalty_claims_claim_id |-> {"claim_id"},
            idx_royalty_claims_creator_wallet |-> {"creator_wallet"},
            idx_royalty_claims_claimed_at |-> {"claimed_at"}])>>,
      <<DropIndexesIfPresent("royalty_claims", {"idx_royalty_claims_claimed_at",
            "idx_royalty_claims_creator_wallet", "idx_royalty_claims_claim_id"}),
        DropTableIfPresent("royalty_claims")>>)

CreateDividendAllocationsAndClaims1740000000005 == Migration(
      <<CreateTableIfAbsent("dividend_allocations", {"id", "allocation_id", "distribution_id",
            "issuer_wallet", "recipient_wallet", "amount", "cycle_frequency", "tx_hash",
            "ledger_sequence", "distributed_at", "created_at"}, {}),
        CreateIndexesIfAbsent("dividend_allocations", [
            idx_dividend_allocations_allocation_id |-> {"allocation_id"},
            idx_dividend_allocations_recipient_wallet |-> {"recipient_wallet"},
            idx_dividend_allocations_distribution |-> {"distribution_id"}]),
        CreateTableIfAbsent("dividend_claims", {"id", "claim_id", "distribution_id",
            "issuer_wallet", "recipient_wallet", "amount", "cycle_frequency", "tx_hash",
            "ledger_sequence", "claimed_at", "created_at"}, {}),
        CreateIndexesIfAbsent("dividend_claims", [idx_dividend_claims_claim_id |-> {"claim_id"},
            idx_dividend_claims_recipient_wallet |-> {"recipient_wallet"},
            idx_dividend_claims_claimed_at |-> {"claimed_at"}])>>,
      <<DropIndexesIfPresent("dividend_claims", {"idx_dividend_claims_claimed_at",
            "idx_dividend_claims_recipient_wallet", "idx_dividend_claims_claim_id"}),
        DropTableIfPresent("dividend_claims"),
        DropIndexesIfPresent("dividend_allocations", {"idx_dividend_allocations_distribution",
            "idx_dividend_allocations_recipient_wallet", "idx_dividend_allocations_allocation_id"}),
        DropTableIfPresent("dividend_allocations")>>)

CreateOnboardingProgress1740000000006 == Migration(
      <<CreateTableIfAbsent("onboarding_progress", {"id", "wallet_address", "tour_completed",
            "completed_at", "created_at", "updated_at"}, {}),
        CreateIndexesIfAbsent("onboarding_progress", [
            idx_onboarding_progress_wallet_address |-> {"wallet_address"}])>>,
      <<DropIndexesIfPresent("onboarding_progress", {"idx_onboarding_progress_wallet_address"}),
        DropTableIfPresent("onboarding_progress")>>)

CreateSecondaryListingsTable1750000000000 == Migration(
      <<CreateTableIfAbsent("secondary_listings", {"id", "invoice_id", "seller_wallet",
            "seller_id", "quantity", "price_per_fraction", "total_price", "status", "expires_at",
            "cancellation_reason", "created_at", "updated_at", "deleted_at", "version"}, {}),
        CreateIndexes("secondary_listings", [idx_secondary_listings_seller |-> {"seller_wallet"},
            idx_secondary_listings_invoice |-> {"invoice_id"},
            idx_secondary_listings_status_expiry |-> {"status", "expires_at"},
            idx_secondary_listings_active |-> {"status", "expires_at", "created_at"},
            idx_secondary_listings_seller_id |-> {"seller_id"},
            idx_secondary_listings_status |-> {"status"},
            idx_secondary_listings_expires_at |-> {"expires_at"}]),
        Refer("secondary_listings", {"invoices"}), Refer("secondary_listings", {"users"})>>,
      <<DropTable("secondary_listings")>>)

CreateWatchlistTable1751000000000 == Migration(
      <<CreateTableIfAbsent("watchlist", {"id", "wallet_address", "user_id", "invoice_id", "notes",
            "created_at", "updated_at", "deleted_at", "version"}, {}),
        CreateIndexes("watchlist", [
            uq_watchlist_wallet_invoice |-> {"wallet_address", "invoice_id"},
            idx_watchlist_wallet |-> {"wallet_address"}, idx_watchlist_invoice |-> {"invoice_id"},
            idx_watchlist_user_id |-> {"user_id"}]),
        Refer("watchlist", {"invoices"}), Refer("watchlist", {"users"})>>,
      <<DropTable("watchlist")>>)

CreateKycHistoryTable1752000000000 == Migration(
      <<CreateTableIfAbsent("kyc_history", {"id", "user_id", "wallet", "verification_type",
            "status", "documents", "rejection_reason", "provider_reference", "is_archived",
            "archived_at", "created_at"}, {}),
        CreateIndexes("kyc_history", [idx_kyc_history_user_id |-> {"user_id"},
            idx_kyc_history_wallet |-> {"wallet"}, idx_kyc_history_status |-> {"status"},
            idx_kyc_history_created_at |-> {"created_at"}]),
        Refer("kyc_history", {"users"})>>,
      <<DropTable("kyc_history")>>)

AddNotificationDataColumn1753000000000 == Migration(
      <<AddColumnsIfAbsent("notifications", {"data"})>>,
      <<DropColumnsIfPresent("notifications", {"data"})>>)

AddSubscriptionNotificationTypes1754000000000 == WithoutTransaction(
      <<AddValue("notifications_notificationtype_enum", "subscription"),
        AddValue("notifications_notificationtype_enum", "subscription_expiring")>>,
      <<>>)

CreateCommunityProgramTables1754000000000 == Migration(
      <<CreateTableIfAbsent("invoice_fraud_reports", {"id", "invoice_id", "reporter_wallet",
            "reason", "detail", "status", "review_note", "created_at", "updated_at"}, {}),
        CreateIndexes("invoice_fraud_reports", [
            uq_invoice_fraud_report_wallet |-> {"invoice_id", "reporter_wallet"}]),
        CreateTableIfAbsent("referrals", {"id", "referrer_wallet", "referee_wallet",
            "earned_amount", "claimed_amount", "created_at"}, {}),
        CreateIndexes("referrals", [uq_referral_referee |-> {"referee_wallet"}]),
        CreateTableIfAbsent("waitlist_entries", {"id", "wallet", "email", "referral_code",
            "referral_count", "status", "created_at", "updated_at"}, {}),
        CreateIndexes("waitlist_entries", [uq_waitlist_wallet |-> {"wallet"}])>>,
      <<DropTableIfPresent("waitlist_entries"), DropTableIfPresent("referrals"),
        DropTableIfPresent("invoice_fraud_reports")>>)

CreateFeeScheduleTables1754000000000 == Migration(
      <<EnsureTable("fee_schedules", {"id", "investment_fee_bps", "settlement_fee_bps",
            "platform_fee_bps", "secondary_market_fee_bps", "is_active", "effective_from",
            "effective_until", "created_at", "updated_at"},
            {}, {"idx_fee_schedules_is_active", "idx_fee_schedules_effective_dates"}),
        EnsureTable("fee_schedule_history", {"id", "fee_schedule_id", "actor_wallet", "actor_role",
            "old_investment_fee_bps", "old_settlement_fee_bps", "old_platform_fee_bps",
            "old_secondary_market_fee_bps", "new_investment_fee_bps", "new_settlement_fee_bps",
            "new_platform_fee_bps", "new_secondary_market_fee_bps", "change_reason", "created_at"},
            {"fee_schedules"}, {"idx_fee_schedule_history_schedule_id",
            "idx_fee_schedule_history_created_at", "idx_fee_schedule_history_actor"}),
        Update("fee_schedules", {"investment_fee_bps", "settlement_fee_bps", "platform_fee_bps",
            "secondary_market_fee_bps", "is_active", "effective_from"})>>,
      <<DropTableCascading("fee_schedule_history"), DropTableCascading("fee_schedules")>>)

CreateSettlementIntents1754000000000 == Migration(
      <<CreateTableIfAbsent("settlement_intents", {"id", "invoice_id", "status", "payload",
            "transaction_hash", "created_at", "updated_at"}, {"invoices"}),
        CreateIndexesIfAbsent("settlement_intents", [
            uq_settlement_intents_invoice_id |-> {"invoice_id"},
            idx_settlement_intents_status |-> {"status"}])>>,
      <<DropIndexesIfPresent("settlement_intents", {"idx_settlement_intents_status",
            "uq_settlement_intents_invoice_id"}),
        DropTableIfPresent("settlement_intents")>>)

CreateIssuerReputationTable1754100000000 == Migration(
      <<EnsureTable("issuer_reputations", {"id", "wallet_address", "score", "tier",
            "total_invoices_settled", "on_time_settlement_rate", "avg_days_late", "avg_days_early",
            "last_settled_at", "created_at", "updated_at"},
            {}, {"idx_issuer_reputations_wallet", "idx_issuer_reputations_score",
            "idx_issuer_reputations_tier"}),
        EnsureTable("issuer_reputation_history", {"id", "issuer_reputation_id", "old_score",
            "old_tier", "new_score", "new_tier", "invoice_id", "settlement_was_on_time",
            "trigger_reason", "created_at"},
            {"issuer_reputations"}, {"idx_issuer_reputation_history_id",
            "idx_issuer_reputation_history_created_at",
            "idx_issuer_reputation_history_invoice"})>>,
      <<DropTableCascading("issuer_reputation_history"),
        DropTableCascading("issuer_reputations")>>)

CreateInvestorRiskProfileTable1754200000000 == Migration(
      <<EnsureTable("investor_risk_profiles", {"id", "wallet_address", "tier",
            "investment_experience", "time_horizon", "risk_tolerance", "annual_income_range",
            "net_worth_range", "investment_objective", "loss_tolerance_percentage", "created_at",
            "updated_at"},
            {}, {"idx_investor_risk_profiles_wallet", "idx_investor_risk_profiles_tier"})>>,
      <<DropTableCascading("investor_risk_profiles")>>)

CreateInvoiceDraftsTable1754300000000 == Migration(
      <<EnsureTable("invoice_drafts", {"id", "seller_id", "seller_wallet", "draft_data",
            "last_saved_at", "expires_at", "created_at"},
            {}, {"idx_invoice_drafts_seller_id", "idx_invoice_drafts_seller_wallet",
            "idx_invoice_drafts_expires_at"})>>,
      <<DropTableCascading("invoice_drafts")>>)

CreateKeySubscriptionsTable1755000000000 == Migration(
      <<CreateTableIfAbsent("key_subscriptions", {"id", "wallet", "key_id", "key_name",
            "min_holding", "current_balance", "expiry_ledger", "expiry_date",
            "last_notified_cycle", "last_notified_window", "is_active", "created_at", "updated_at"},
            {}),
        CreateIndexes("key_subscriptions", [idx_key_subscriptions_wallet |-> {"wallet"},
            idx_key_subscriptions_key_id |-> {"key_id"},
            idx_key_subscriptions_expiry_date |-> {"expiry_date"},
            idx_key_subscriptions_wallet_key |-> {"wallet", "key_id"}])>>,
      <<DropTableIfPresent("key_subscriptions")>>)

CreateStellarPaymentClaims1755000000000 == Migration(
      <<CreateTable("stellar_payment_claims", {"stellar_tx_hash", "stellar_operation_index",
            "investment_id", "transaction_id"}, {}, {}),
        Update("investments", {"transaction_hash", "stellar_operation_index", "id"}),
        Update("transactions", {"stellar_tx_hash", "stellar_operation_index", "investment_id", "id"}),
        Refuse(TwoOwners),
        CreateFunctions({"claim_stellar_payment_operation", "claim_stellar_investment_payment",
            "claim_stellar_transaction_payment"}),
        CreateTrigger("investments", "trg_claim_stellar_investment_payment",
            "claim_stellar_investment_payment"),
        CreateTrigger("transactions", "trg_claim_stellar_transaction_payment",
            "claim_stellar_transaction_payment")>>,
      <<DropTriggerIfPresent("transactions", "trg_claim_stellar_transaction_payment"),
        DropTriggerIfPresent("investments", "trg_claim_stellar_investment_payment"),
        DropFunctionsIfPresent({"claim_stellar_transaction_payment", "claim_stellar_investment_payment",
            "claim_stellar_payment_operation"}),
        DropTableIfPresent("stellar_payment_claims")>>)

CreatePendingStellarTransactions1755100000000 == Migration(
      <<CreateTable("pending_stellar_transactions", {"stellar_tx_hash", "contract_id", "status",
            "submitted_at", "last_checked_at", "confirmed_ledger", "failure_reason", "created_at",
            "updated_at"}, {}, {"idx_pending_stellar_transactions_status_created"})>>,
      <<DropIndexesIfPresent("pending_stellar_transactions", {
            "idx_pending_stellar_transactions_status_created"}),
        DropTableIfPresent("pending_stellar_transactions")>>)

-----------------------------------------------------------------------------

\* The runner sorts by the timestamp in the name, and keeps the order of the files
\* where two are equal.
ByTimestamp == <<
    AddSorobanEscrowFieldsToInvoice1710000000000,
    AddMarketplaceIndexes1711000000000,
    AddOptimisticLockVersionColumns1711000000000,
    AddMarketplaceIndexes1711100000000,
    CreateWebhookSubscriptionsTable1712000000000,
    CreateSorobanEventLogsTable1713000000000,
    AddSorobanEventLogsIndex1714000000000,
    InitialSchema1731513600000,
    AddAuthChallenges1731600000000,
    AddInvestmentPaymentVerification1731700000000,
    AddTransactionInvoiceAndInvestmentLinks1731800000000,
    AddInvoiceDocuments1731900000000,
    AddUserKycVerifiedFlag1731900000001,
    AddAutoInvest1731910000000,
    AddContractEventIndexers1732000000000,
    AddInvoiceRejection1732000000000,
    CreateWebhookDeliveryLogsTable1732100000000,
    AddInvestorOnboardingAlertAndYieldData1732200000000,
    AddWebhookDeliveryEventId1732200000000,
    AddUserAndTransactionPerformanceIndexes1732300000000,
    CreateEventTables1732400000000,
    CreateInvoiceStatusHistory1732400000000,
    AddInvoiceLifecycleNotificationTypes1732500000000,
    AddInvoiceFundedAmountAndInvestmentBlock1732600000000,
    AddInvoiceCursorPaginationIndex1732700000000,
    AddInvoiceFailedStatus1732700000000,
    AddKycVerificationWallet1732700000000,
    CreateInvestorReturnsAndSettlementRemainder1732700000000,
    AddInvestorAckAndExtensionRequests1732800000000,
    AddSorobanIndexerCheckpoint1732800000000,
    AddUserAdminManagement1732800000000,
    CreateCreatorKeysTable1732800000000,
    AddInsuranceExtensionRegistryBlacklistTables1732900000000,
    AddNotificationDispatchDedupe1732900000000,
    CreateContractAclTables1732900000000,
    AddInvoiceFullTextSearch1733000000000,
    CreateCurveMigrationsTable1733000000000,
    CreateAtomicSwapsTable1733100000000,
    CreateInvestorPayoutsTable1737500000000,
    CreateCreatorKeysAndRatingsLeaderboard1740000000000,
    CreateRoyaltyEvents1740000000001,
    CreateDividendTables1740000000002,
    CreateAnalyticsSnapshots1740000000003,
    CreateRoyaltyClaims1740000000004,
    CreateDividendAllocationsAndClaims1740000000005,
    CreateOnboardingProgress1740000000006,
    CreateSecondaryListingsTable1750000000000,
    CreateWatchlistTable1751000000000,
    CreateKycHistoryTable1752000000000,
    AddNotificationDataColumn1753000000000,
    AddSubscriptionNotificationTypes1754000000000,
    CreateCommunityProgramTables1754000000000,
    CreateFeeScheduleTables1754000000000,
    CreateSettlementIntents1754000000000,
    CreateIssuerReputationTable1754100000000,
    CreateInvestorRiskProfileTable1754200000000,
    CreateInvoiceDraftsTable1754300000000,
    CreateKeySubscriptionsTable1755000000000,
    CreateStellarPaymentClaims1755000000000,
    CreatePendingStellarTransactions1755100000000>>
=============================================================================
