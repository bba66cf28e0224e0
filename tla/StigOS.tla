------------------------------- MODULE StigOS -------------------------------
(***************************************************************************)
(* The rules of the operating systems' STIGs (stig: os.go, ostemplates.go, *)
(* osnamed.go, osnamed_system.go), by node.                                *)
(*                                                                         *)
(* The scan of a node reads all of its facts at one moment (the source     *)
(* "stig"); the probes after it carry them.  What a rule reads besides,    *)
(* the OS, the services and the kernel's settings, is the probe's of that  *)
(* cycle.  Two shapes are most of the rules: one asks for what has to be   *)
(* there, and fails without; one finds what must not, and passes without.  *)
(***************************************************************************)
EXTENDS Stig

\* Of each release the rules of its STIG: [id, own: a hand-written check or "-",
\* checks: what ComplianceAsCode has for it].
CONSTANT Benchmarks

Scan(d, n, w) == Has(d, "stig", n, w)
Asks(d, n, r) == Judge(Scan(d, n, r))
Finds(d, n, r) == Judge(~Scan(d, n, "wrong " \o r))

\* A rule about what a node may lack.
IfThere(d, n, r, Says) == IF Scan(d, n, "there is " \o r) THEN Says ELSE "NA"
\* A value that is set, or nothing to judge.
IfSet(d, n, r, absent) == IF Scan(d, n, "value of " \o r) THEN Asks(d, n, r) ELSE absent

-----------------------------------------------------------------------------
(* osChecks: the hand-written ones, of what the probe reads itself          *)

\* Runs now, and again at the next boot.
RunsAndBoots(d, n, s) == Judge(Has(d, "probe", n, s \o " active") /\ ~Has(d, "probe", n, s \o " off at boot"))

SysctlKeys == {"aslr", "dmesg", "kptr", "ptrace", "core_pattern", "protected_symlinks", "protected_hardlinks",
               "accept_redirects_all", "accept_redirects_default", "source_route_all", "source_route_default",
               "echo_broadcast"}
\* The keys of osChecks, with what stands for their rules where there is no benchmark.
OSKeys == SysctlKeys \cup {"fips", "mac", "fapolicyd", "auditd", "firewall", "usbguard", "timesync"}

FIPS(d, n) ==
    IF ~Has(d, "probe", n, "fips known") THEN "Manual"
    ELSE Judge(Has(d, "probe", n, "fips") /\ ~Has(d, "config", n, "fips lost at boot"))

MAC(d, n) ==
    IF Has(d, "probe", n, "SELinux enforcing") THEN Judge(~Has(d, "probe", n, "SELinux config differs"))
    ELSE Judge(/\ Has(d, "probe", n, "AppArmor")
               /\ ~Has(d, "config", n, "no profile enforced") /\ ~Has(d, "probe", n, "apparmor off at boot"))

\* Active without a rule is not enough.
AuditdRuns(d, n) == IF Has(d, "config", n, "no audit rules") THEN "Fail" ELSE RunsAndBoots(d, n, "auditd")

Firewall(d, n) ==
    LET ufw == Has(d, "config", n, "ufw active")
        active == Has(d, "probe", n, "firewalld active") \/ Has(d, "probe", n, "ufw active") \/ ufw
        off == Has(d, "probe", n, "firewalld off at boot") \/ (ufw /\ Has(d, "config", n, "ufw not ENABLED"))
        installed == \E l \in {"probe", "config"} : Has(d, l, n, "firewall installed")
    IN IF active THEN Judge(~off)
       ELSE IF installed \/ Has(d, "probe", n, "firewalld on at boot") THEN "Fail" ELSE "Manual"

TimeSync(d, n) ==
    IF Has(d, "probe", n, "clock known")
    THEN IF Has(d, "probe", n, "clock not synchronized") THEN "Fail"
         ELSE IF Has(d, "probe", n, "only timesyncd") THEN "Manual" ELSE "Pass"
    ELSE IF Has(d, "probe", n, "chronyd active") THEN "Pass" ELSE "Manual"

OSCheck(d, n, key) ==
    CASE key = "fips" -> FIPS(d, n)
      [] key = "mac" -> MAC(d, n)
      [] key \in {"fapolicyd", "usbguard"} -> IF Has(d, "probe", n, "rhel") THEN RunsAndBoots(d, n, key) ELSE "NA"
      [] key = "auditd" -> AuditdRuns(d, n)
      [] key = "firewall" -> Firewall(d, n)
      [] key = "timesync" -> TimeSync(d, n)
      [] key \in SysctlKeys -> IF Has(d, "config", n, "value of " \o key) THEN Judge(Has(d, "config", n, key)) ELSE "Manual"

-----------------------------------------------------------------------------
(* The templates.  A check is [eval, name, with]: what of the node its      *)
(* parameters name, and which of its options are set.  A check without a    *)
(* template is "named" when there is an evaluator of its name (namedEvals), *)
(* else "custom".                                                           *)

\* A rule with a variable applies when the variable has its value.
Guarded(c, Says) == IF "variable differs" \in c.with THEN "NA" ELSE Says

\* A parameter's value may not be resolved.
Wants(c, Says) == IF "no value" \in c.with THEN "Manual" ELSE Says

SysctlOf(d, n, c) ==
    Wants(c, IfSet(d, n, c.name, IF "ipv6" \in c.with THEN "NA" ELSE "Manual"))

\* A unit that is enabled and active; a service also when its socket is.
Enabled(d, n, c) == Guarded(c, Judge(Scan(d, n, c.name) \/ (c.eval = "service_enabled" /\ Scan(d, n, c.name \o ".socket"))))
Disabled(d, n, c) == Guarded(c, Finds(d, n, c.name))

\* Mounted without the option, or fstab's entry without it.
MountOption(d, n, c) ==
    IF Scan(d, n, "mount " \o c.name) THEN Finds(d, n, c.name)
    ELSE Judge("has to exist" \notin c.with)

SSHD(d, n, c) ==
    IF ~Scan(d, n, "sshd -T") THEN IfThere(d, n, "sshd", "Manual")
    ELSE IF ~Scan(d, n, "value of " \o c.name) THEN Judge("missing passes" \in c.with)
    ELSE Wants(c, Asks(d, n, c.name))

\* The violators of the scan's find, or the path's own stat; an absent file passes.
FileOf(d, n, c) == Wants(c, Finds(d, n, c.name))
Existence(d, n, c) == Judge(("exists" \in c.with) = Scan(d, n, c.name))

\* The rules loaded, else those configured: one that covers the call, on each architecture.
AuditCall(d, n, r) == Judge(Scan(d, n, r \o " b64") /\ (Has(d, "probe", n, "x86_64") => Scan(d, n, r \o " b32")))
AuditUnsuccessful(d, n, c) ==
    IF \A e \in {"-EACCES", "-EPERM"} : AuditCall(d, n, c.name \o " " \o e) = "Pass" THEN "Pass" ELSE "Fail"

\* On the running kernel's command line and, when that was read, the boot loader's.
GrubArg(d, n, c) ==
    Judge(Has(d, "probe", n, c.name) /\ (Scan(d, n, "grub read") => Scan(d, n, c.name)))

\* A parameter of a file: the file is missing, the parameter is, or it differs.
InFile(d, n, c) ==
    IF Scan(d, n, "value of " \o c.name) THEN Wants(c, Asks(d, n, c.name))
    ELSE Judge("missing passes" \in c.with /\ Scan(d, n, "file of " \o c.name))

\* The last drop-in wins; the main file may be missing.
Dropin(d, n, c) ==
    IF Scan(d, n, "value of " \o c.name) THEN Asks(d, n, c.name)
    ELSE Judge("missing passes" \in c.with /\ ("missing file fails" \in c.with => Scan(d, n, "file of " \o c.name)))

Template == {"sysctl", "package_installed", "package_removed", "service_enabled", "service_disabled", "unit_enabled",
             "unit_disabled", "mount", "mount_option", "mount_option_remote", "mount_option_removable", "sshd_lineinfile",
             "file_permissions", "file_owner", "file_existence", "audit_rules_watch", "audit_rules_privileged_commands",
             "audit_rules_dac_modification", "audit_rules_unsuccessful_file_modification", "kernel_module_disabled",
             "grub2_bootloader_argument", "auditd_lineinfile", "key_value_pair_in_file", "shell_lineinfile", "lineinfile",
             "systemd_dropin_configuration", "dconf_ini_file", "accounts_password", "pam_account_password_faillock",
             "pam_options"}

\* templateEvals.
ByTemplate(d, n, c) ==
    CASE c.eval = "sysctl" -> SysctlOf(d, n, c)
      [] c.eval = "package_installed" -> Guarded(c, Asks(d, n, c.name))
      [] c.eval \in {"package_removed", "service_disabled", "unit_disabled"} -> Disabled(d, n, c)
      [] c.eval \in {"service_enabled", "unit_enabled"} -> Enabled(d, n, c)
      [] c.eval \in {"mount", "audit_rules_watch", "kernel_module_disabled", "lineinfile", "pam_options"} -> Asks(d, n, c.name)
      [] c.eval = "mount_option" -> MountOption(d, n, c)
      [] c.eval = "mount_option_remote" -> Finds(d, n, c.name)
      [] c.eval = "mount_option_removable" -> "Manual"
      [] c.eval = "sshd_lineinfile" -> SSHD(d, n, c)
      [] c.eval \in {"file_permissions", "file_owner"} -> FileOf(d, n, c)
      [] c.eval = "file_existence" -> Existence(d, n, c)
      [] c.eval = "audit_rules_privileged_commands" -> IfThere(d, n, c.name, Asks(d, n, c.name))
      [] c.eval = "audit_rules_dac_modification" -> AuditCall(d, n, c.name)
      [] c.eval = "audit_rules_unsuccessful_file_modification" -> AuditUnsuccessful(d, n, c)
      [] c.eval = "grub2_bootloader_argument" -> GrubArg(d, n, c)
      [] c.eval \in {"auditd_lineinfile", "key_value_pair_in_file", "shell_lineinfile"} -> InFile(d, n, c)
      [] c.eval = "systemd_dropin_configuration" -> Dropin(d, n, c)
      [] c.eval = "dconf_ini_file" -> IfThere(d, n, "GNOME", Asks(d, n, c.name))
      [] c.eval \in {"accounts_password", "pam_account_password_faillock"} -> Wants(c, Asks(d, n, c.name))

-----------------------------------------------------------------------------
(* namedEvals: ComplianceAsCode's hand-written checks, by area.  What has   *)
(* to be there (Asked), what must not (Found), what only a person can say   *)
(* (Manually), and those with a condition of their own.                     *)

AccountsAsked ==
    {"accounts_maximum_age_login_defs", "accounts_minimum_age_login_defs", "accounts_password_minlen_login_defs",
     "accounts_logon_fail_delay", "accounts_have_homedir_login_defs", "accounts_umask_etc_login_defs",
     "set_password_hashing_algorithm_logindefs", "set_password_hashing_min_rounds_logindefs",
     "account_disable_post_pw_expiration"}
AccountsFound ==
    {"accounts_password_set_max_life_existing", "accounts_password_set_min_life_existing",
     "accounts_password_all_shadowed_sha512", "no_empty_passwords_etc_shadow", "no_empty_passwords", "account_unique_id",
     "no_duplicate_uids", "group_unique_id", "gid_passwd_group_same", "accounts_no_uid_except_zero",
     "no_shelllogin_for_systemaccounts", "accounts_user_interactive_home_directory_defined"}
HomesFound ==
    {"accounts_user_interactive_home_directory_exists", "file_permissions_home_directories",
     "file_groupownership_home_directories", "file_permission_user_init_files_root", "file_permission_user_init_files",
     "accounts_user_dot_no_world_writable_programs", "accounts_users_home_files_permissions",
     "accounts_users_home_files_groupownership", "accounts_umask_interactive_users", "accounts_user_home_paths_only"}
AccountsManually == {"accounts_authorized_local_users", "account_temp_expire_date", "ensure_sudo_group_restricted"}

PAMAsked ==
    {"account_password_pam_faillock_system_auth", "account_password_pam_faillock_password_auth",
     "accounts_password_pam_pwquality_system_auth", "accounts_password_pam_pwquality_password_auth",
     "accounts_password_pam_unix_rounds_system_auth", "accounts_password_pam_unix_rounds_password_auth",
     "set_password_hashing_algorithm_systemauth", "set_password_hashing_algorithm_passwordauth",
     "set_password_hashing_algorithm_auth_stig"}
FaillockAsked ==
    {"accounts_passwords_pam_faillock_audit", "accounts_passwords_pam_faillock_deny_root",
     "accounts_passwords_pam_faillock_silent", "accounts_passwords_pam_faillock_dir", "accounts_password_pam_retry",
     "smartcard_pam_enabled", "smartcard_configure_cert_checking", "smartcard_configure_ca", "smartcard_configure_crl"}

SudoAsked == {"sudo_require_reauthentication", "sudoers_validate_passwd", "selinux_context_elevation_for_sudo"}
SudoFound == {"sudo_remove_nopasswd", "sudo_remove_no_authenticate", "sudo_require_authentication",
              "sudo_restrict_privilege_elevation_to_authorized", "disallow_bypass_password_sudo"}

SessionsAsked ==
    {"accounts_umask_etc_bashrc", "accounts_umask_etc_profile", "accounts_tmout", "accounts_max_concurrent_login_sessions",
     "disable_users_coredumps", "logind_session_timeout", "disable_ctrlaltdel_burstaction", "disable_ctrlaltdel_reboot",
     "xwindows_runlevel_target", "require_emergency_target_auth", "require_singleuser_auth"}

GNOMEAsked ==
    {"dconf_gnome_banner_enabled", "dconf_gnome_disable_automount_open", "dconf_gnome_disable_autorun",
     "dconf_gnome_screensaver_lock_enabled", "dconf_gnome_disable_restart_shutdown", "dconf_gnome_disable_user_list",
     "dconf_gnome_disable_ctrlaltdel_reboot", "dconf_gnome_screensaver_idle_delay", "dconf_gnome_screensaver_lock_delay",
     "dconf_gnome_session_idle_user_locks", "dconf_gnome_screensaver_user_locks", "dconf_gnome_screensaver_lock_locked",
     "dconf_gnome_screensaver_mode_blank", "dconf_gnome_login_banner_text", "gnome_gdm_disable_automatic_login"}

ReposAsked == {"ensure_gpgcheck_globally_activated", "ensure_gpgcheck_local_packages", "clean_components_post_updating",
               "ensure_redhat_gpgkey_installed"}
ReposFound == {"ensure_epel_repos_disabled", "apt_conf_disallow_unauthenticated"}

AuditdAsked ==
    {"auditd_data_disk_error_action", "auditd_data_disk_error_action_stig", "auditd_data_disk_full_action",
     "auditd_data_disk_full_action_stig", "auditd_data_retention_action_mail_acct",
     "auditd_data_retention_admin_space_left_action", "auditd_data_retention_max_log_file_action_stig",
     "auditd_name_format", "auditd_overflow_action", "auditd_data_retention_admin_space_left_percentage",
     "auditd_data_retention_space_left_action"}
AuditRulesAsked ==
    {"audit_rules_immutable", "audit_rules_immutable_login_uids", "audit_rules_system_shutdown",
     "audit_rules_dac_modification_umount", "audit_rules_privileged_commands_modprobe",
     "audit_rules_privileged_commands_fdisk"}
AuditDirs == {"directory_ownership_var_log_audit", "directory_permissions_var_log_audit"}
AuditLogsFound ==
    {"directory_group_ownership_var_log_audit", "file_permissions_var_log_audit", "file_permissions_var_log_audit_stig",
     "file_ownership_var_log_audit_stig", "file_group_ownership_var_log_audit", "file_group_ownership_var_log_audit_stig"}

RsyslogAsked ==
    {"rsyslog_remote_access_monitoring", "rsyslog_remote_loghost", "rsyslog_cron_logging",
     "rsyslog_encrypt_offload_defaultnetstreamdriver", "rsyslog_omfwd_streamdriver",
     "rsyslog_encrypt_offload_actionsendstreamdrivermode", "rsyslog_omfwd_tls",
     "rsyslog_encrypt_offload_actionsendstreamdriverauthmode", "rsyslog_omfwd_authmode"}
ChronyAsked == {"chronyd_server_directive", "chronyd_specify_remote_server", "chronyd_client_only",
                "chronyd_no_chronyc_network", "chronyd_configure_local_socket", "chronyd_or_ntpd_set_maxpoll"}

CryptoAsked ==
    {"configure_crypto_policy", "harden_sshd_ciphers_opensshserver_conf_crypto_policy",
     "harden_sshd_macs_opensshserver_conf_crypto_policy", "harden_sshd_ciphers_openssh_conf_crypto_policy",
     "harden_sshd_macs_openssh_conf_crypto_policy", "sshd_include_crypto_policy", "sshd_use_approved_ciphers_ordered_stig",
     "sshd_use_approved_macs_ordered_stig", "sshd_use_approved_kex_ordered_stig",
     "ssh_client_use_approved_ciphers_ordered_stig", "ssh_use_approved_macs_ordered_stig"}
CryptoFound == {"file_permissions_sshd_private_key", "ssh_keys_passphrase_protected"}

NetworkAsked == {"ufw_rate_limit", "network_configure_name_resolution", "postfix_client_configure_mail_alias_postmaster"}

SweepFound ==
    {"dir_perms_world_writable_sticky_bits", "dir_perms_world_writable_system_owned", "dir_perms_world_writable_root_owned",
     "dir_perms_world_writable_system_owned_group", "file_permissions_ungroupowned", "no_files_unowned_by_user",
     "no_host_based_files", "no_user_host_based_files", "file_permissions_binary_dirs", "file_ownership_binary_dirs",
     "file_groupownership_system_commands_dirs", "mount_option_nodev_nonroot_local_partitions"}

AIDEAsked == {"aide_use_fips_hashes", "aide_verify_acls", "aide_verify_ext_attributes", "aide_check_audit_tools",
              "aide_scan_notification"}

SSSDAsked ==
    {"sssd_enable_smartcards", "sssd_certificate_verification", "sssd_certification_path_trust_anchor",
     "sssd_enable_pam_services", "sssd_enable_user_cert", "sssd_has_trust_anchor"}
MiscellanyAsked == {"only_allow_dod_certs", "prevent_direct_root_logins", "ensure_rtc_utc_configuration", "banner_etc_issue",
                    "banner_etc_profiled_ssh_confirm", "fapolicy_default_deny"}

AllAsked == UNION {AccountsAsked, PAMAsked, FaillockAsked, SudoAsked, SessionsAsked, ReposAsked, AuditdAsked, AuditRulesAsked,
                   ChronyAsked, CryptoAsked, NetworkAsked, AIDEAsked, SSSDAsked, MiscellanyAsked}
AllFound == UNION {AccountsFound, HomesFound, SudoFound, ReposFound, AuditLogsFound, CryptoFound, SweepFound,
                   {"xwindows_remove_packages", "network_sniffer_disabled", "rsyslog_nolisten"}}
Manually == AccountsManually \cup {"security_patches_up_to_date", "auditd_offload_logs"}

\* Of a package or a file the node may lack.
Conditional == {"set_password_hashing_algorithm_libuserconf", "accounts_umask_etc_csh_cshrc", "tftp_uses_secure_mode_systemd",
                "configure_bind_crypto_policy", "configure_libreswan_crypto_policy", "postfix_prevent_unrestricted_relay",
                "postfix_client_configure_mail_alias", "aide_build_database", "aide_periodic_checking_systemd_timer",
                "aide_periodic_cron_checking", "configure_opensc_card_drivers"}
Verified == {"file_permissions_sshd_config_not_modified", "file_permissions_cron_not_modified"}
\* Of one way to boot: on a node of the other it is not applicable.  Ubuntu's are of both.
BootPasswords == [r \in {"grub2_password", "grub2_uefi_password"} |-> r = "grub2_uefi_password"]
BootUsers == [r \in {"grub2_admin_username", "grub2_uefi_admin_username"} |-> r = "grub2_uefi_admin_username"]
UEFI(d, n) == Scan(d, n, "efi")

Enforcing(d, n) == Has(d, "probe", n, "SELinux enforcing")
\* A benchmark knows until when its release is supported.
Supported(d, n, known) ==
    IF ~known THEN "Manual" ELSE Judge(Has(d, "here", n, "in support") \/ Has(d, "config", n, "esm-infra"))

\* No line: the sweep did not get there.
AuditDir(d, n, r) ==
    IF Scan(d, n, "AUDITDIR") THEN Finds(d, n, r) ELSE IF Scan(d, n, "AUDITDIRNONE") THEN "Fail" ELSE "Unknown"
Rsyslog(d, n, r) ==
    IF Scan(d, n, "rsyslog config") THEN Asks(d, n, r) ELSE IF Scan(d, n, "rsyslog installed") THEN "Fail" ELSE "Manual"
CryptoPolicy(d, n, r) ==
    IF ~Scan(d, n, "configure_crypto_policy") THEN "Fail"
    ELSE IF Scan(d, n, "CURRENT.pol") THEN Finds(d, n, r) ELSE "Manual"
Applied(d, n, r) == IF Scan(d, n, "wrong " \o r) THEN "Fail" ELSE IF Scan(d, n, r) THEN "Pass" ELSE "Manual"
Evidence(d, n) == IF Has(d, "probe", n, "firewalld active") THEN "Manual" ELSE "Fail"
Includes(d, n, r) ==
    IF ~Scan(d, n, "/etc/sudoers") THEN "Fail" ELSE IfThere(d, n, r, Finds(d, n, r))

\* The evaluators with a condition of their own.
ByCondition(d, n, r, known) ==
    CASE r \in Conditional -> IfThere(d, n, r, Asks(d, n, r))
      [] r \in Verified -> IfThere(d, n, r, Finds(d, n, r))
      [] r \in GNOMEAsked -> IfThere(d, n, "GUI", Asks(d, n, r))
      [] r = "dconf_db_up_to_date" -> IfThere(d, n, "GUI", Finds(d, n, r))
      [] r = "rootfiles_configured" -> IF Has(d, "probe", n, "rhel 10") THEN Asks(d, n, r) ELSE "NA"
      [] r = "account_password_selinux_faillock_dir" -> IF Enforcing(d, n) THEN Asks(d, n, r) ELSE "NA"
      [] r = "selinux_all_devicefiles_labeled" -> IF Enforcing(d, n) THEN Finds(d, n, r) ELSE "NA"
      [] r = "selinux_state" -> Judge(Enforcing(d, n) /\ ~Has(d, "probe", n, "SELinux config differs"))
      [] r = "sudoers_default_includedir" -> Includes(d, n, r)
      [] r \in {"selinux_user_login_roles", "sshd_rekey_limit"} -> IfSet(d, n, r, "Manual")
      [] r = "installed_OS_is_vendor_supported" -> Supported(d, n, known)
      [] r \in {"ensure_gpgcheck_never_disabled", "enable_gpgcheck_for_all_repositories"} ->
             IF Scan(d, n, "repo files") THEN Finds(d, n, r) ELSE "Manual"
      [] r = "kerberos_disable_no_keytab" ->
             IF ~Scan(d, n, "keytabs") THEN "Pass" ELSE IF Scan(d, n, "krb5 installed") THEN "NA" ELSE "Fail"
      [] r = "auditd_data_retention_space_left_percentage" ->
             IF Scan(d, n, "space_left absolute") THEN "Manual" ELSE Asks(d, n, r)
      [] r = "auditd_audispd_configure_sufficiently_large_partition" ->
             IF Has(d, "probe", n, "audit logs on 10 GB of their own") THEN "Pass" ELSE "Manual"
      [] r \in {"audit_rules_suid_privilege_function", "audit_rules_cron_execution"} -> AuditCall(d, n, r)
      [] r \in AuditDirs -> AuditDir(d, n, r)
      [] r \in RsyslogAsked -> Rsyslog(d, n, r)
      [] r \in {"fips_crypto_subpolicy", "fips_custom_stig_sub_policy"} -> CryptoPolicy(d, n, r)
      [] r = "crypto_policy_not_overridden" -> Applied(d, n, r)
      [] r = "libreswan_approved_tunnels" -> IF Scan(d, n, "ipsec active") THEN "Manual" ELSE "Pass"
      [] r \in {"sysctl_crypto_fips_enabled", "is_fips_mode_enabled"} ->
             Judge(Scan(d, n, "crypto.fips_enabled") \/ Has(d, "probe", n, "fips"))
      [] r \in {"sysctl_kernel_exec_shield", "bios_enable_execution_restrictions"} ->
             Judge(Scan(d, n, "nx") /\ ~Has(d, "probe", n, "noexec"))
      [] r = "configured_firewalld_default_deny" -> Judge(Has(d, "probe", n, "firewalld active") /\ Scan(d, n, r))
      [] r \in {"firewalld_sshd_port_enabled", "configure_firewalld_ports"} -> Evidence(d, n)
      [] r = "ufw_only_required_services" -> IF Scan(d, n, "ufw status") THEN "Manual" ELSE "Fail"
      [] r = "check_ufw_active" -> Judge(Scan(d, n, r) \/ Has(d, "probe", n, "firewalld active"))
      [] r = "wireless_disable_interfaces" -> IF Scan(d, n, "wireless") THEN "Fail" ELSE "NA"
      [] r = "encrypt_partitions" -> IF Scan(d, n, "crypt") THEN "Pass" ELSE "Manual"
      [] r \in DOMAIN BootPasswords ->
             IF ~Has(d, "probe", n, "ubuntu") /\ UEFI(d, n) # BootPasswords[r] THEN "NA" ELSE Judge(Scan(d, n, "grub password"))
      [] r \in DOMAIN BootUsers -> IF UEFI(d, n) # BootUsers[r] THEN "NA" ELSE Judge(Scan(d, n, "grub superuser"))
      [] r = "grub2_disable_interactive_boot" -> Judge(\A l \in {"probe", "stig"} : ~Has(d, l, n, "confirm_spawn"))
      [] r = "sssd_offline_cred_expiration" -> IF Scan(d, n, "cache_credentials") THEN Asks(d, n, r) ELSE "Pass"
      [] r = "usbguard_generate_policy" -> IF Scan(d, n, "usbguard installed") THEN Asks(d, n, r) ELSE "Manual"

\* A check without a template, whose name has an evaluator.
ByName(d, n, r, known) ==
    IF r \in AllAsked THEN Asks(d, n, r)
    ELSE IF r \in AllFound THEN Finds(d, n, r)
    ELSE IF r \in Manually THEN "Manual"
    ELSE ByCondition(d, n, r, known)

-----------------------------------------------------------------------------
(* From the checks to a rule, and from the nodes to the results             *)

\* OSBenchmarkFor: the benchmark of the node's release, or none.
Benchmark(d, n) == {b \in DOMAIN Benchmarks : Has(d, "probe", n, b)}

\* evalTemplated: any failure fails; a custom check leaves a part to a person.
Combined(said) ==
    IF "Fail" \in said THEN "Fail"
    ELSE IF said \cap {"Manual", "Unknown"} # {} THEN "Manual"
    ELSE IF "Pass" \in said THEN IF "custom" \in said THEN "Manual" ELSE "Pass"
    ELSE IF "NA" \in said THEN "NA" ELSE "Manual"
Templated(d, n, rule) ==
    LET Says(c) == CASE c.eval = "named" -> ByName(d, n, c.name, Benchmark(d, n) # {})
                     [] c.eval \in Template -> ByTemplate(d, n, c)
                     [] c.eval = "custom" -> "custom"
                     [] c.eval = "another template" -> "Manual"
    IN Combined({Says(c) : c \in rule.checks})

\* templated: one check at least can be evaluated.
Automated(rule) == \E c \in rule.checks : c.eval \in Template \cup {"named"}

RuleOf(d, n, rule) == IF rule.own # "-" THEN OSCheck(d, n, rule.own) ELSE Templated(d, n, rule)

\* The nodes scanned, and those whose scan was asked for and failed.
Scanned(d) == IF d.ssh THEN d.ok["stig"] ELSE {}
Unscanned(d) == IF d.ssh THEN d.probed["stig"] \ d.ok["stig"] ELSE {}
\* Not scanned, and its OS is not known either.
LostNodes(d) == {n \in Unscanned(d) : ~Has(d, "probe", n, "OS known")}

\* Mutant of Groups: the nodes that were scanned only.
GroupsOfScanned(d) ==
    [b \in {Benchmark(d, n) : n \in Scanned(d)} |-> {n \in Scanned(d) : Benchmark(d, n) = b}]

\* The nodes by benchmark; those of none go by the generic checks.  A lost node is
\* counted with the others when they are all of one benchmark.
Groups(d) ==
    LET grouped == (Scanned(d) \cup Unscanned(d)) \ LostNodes(d)
        Of1(b) == {n \in grouped : Benchmark(d, n) = b}
        used == {Benchmark(d, n) : n \in grouped}
        joins == Cardinality(used) = 1 /\ {} \notin used
    IN [b \in used |-> Of1(b) \cup IF joins THEN LostNodes(d) ELSE {}]

\* The evaluators run only for the nodes that were scanned.
IfScanned(d, n, Says) == IF n \in Scanned(d) THEN Says ELSE "Unknown"

OSResults(d, nodes, benchmark) ==
    IF benchmark = {} THEN {<<"OS-" \o k, PerNode([n \in nodes |-> IfScanned(d, n, OSCheck(d, n, k))])>> : k \in OSKeys}
    ELSE {<<rule.id, IF rule.own # "-" \/ Automated(rule)
                     THEN PerNode([n \in nodes |-> IfScanned(d, n, RuleOf(d, n, rule))]) ELSE "Manual">> :
             rule \in UNION {Benchmarks[b] : b \in benchmark}}

OSRules(d) ==
    LET groups == Groups(d) IN
    (UNION {OSResults(d, groups[b], b) : b \in DOMAIN groups})
        \cup When(LostNodes(d) # {} /\ ~\E b \in DOMAIN groups : LostNodes(d) \subseteq groups[b], <<"OS-scan", "Unknown">>)

\* stig.Evaluate.
StigResults(d) ==
    LET nodes == IF Hosts(d) = {} THEN {<<"node", "Unknown">>} ELSE NodeRules(d) \cup RKE2NodeRules(d)
        evaluated == ControlPlaneRules(d) \cup KubeletRules(d) \cup CISRules(d) \cup nodes \cup OSRules(d)
    IN RKE2Rules(d, evaluated) \cup ClusterRules(d) \cup RancherRules(d)

=============================================================================
